---- MODULE Spec2Model ----
(***************************************************************************)
(* Model of the rental-genie conversation core: the profile store          *)
(* (app/conversation_memory.py), the handoff trigger detector and the      *)
(* message orchestrator (app/agent.py).                                    *)
(***************************************************************************)
EXTENDS Integers, Sequences, FiniteSets, TLC

VARIABLES
    conversations,  \* ConversationMemory.conversations: session id -> session, if any
    repo,           \* the tenants table behind supabase_utils: session id -> row, if any
    llm_available,  \* agent.py global: "unset" (None), "yes" or "no"
    extraction_chain, \* agent.py global: "unset" (None) or "ready"
    last,           \* the operation that produced this state, its arguments and result
    pre,            \* conversations[last.sid] as it was when that operation started
    detIn,          \* arguments of the detect_handoff_triggers call under study
    detOut,         \* its returned dict (<<>> before the call)
    extIn,          \* arguments and LLM behaviour of the extract_tenant_info_llm call under study
    extOut,         \* its returned dict (<<>> before the call)
    calls,          \* the handle_message requests in flight: request id -> its position and locals
    memo            \* values of the pure text functions on the texts in play

storeVars == <<conversations, repo, llm_available, extraction_chain, last, pre>>
detVars == <<detIn, detOut>>
extVars == <<extIn, extOut>>
vars ==
    <<conversations, repo, llm_available, extraction_chain, last, pre, detIn, detOut,
      extIn, extOut, calls, memo>>

\* A session id of None (handle_message's default).
None == "<None>"

(***************************************************************************)
(* Python values.  Every attribute value carries its type tag, so that     *)
(* truthiness, `is None` and str-vs-int behave as in the interpreter.      *)
(***************************************************************************)
PyNone == [t |-> "none", s |-> "", n |-> 0]
PyStr(x) == [t |-> "str", s |-> x, n |-> 0]
PyInt(k) == [t |-> "int", s |-> "", n |-> k]
PyBool(b) == [t |-> "bool", s |-> "", n |-> IF b THEN 1 ELSE 0]

\* bool(v): None, "", 0 and False are falsy.
Truthy(v) ==
    CASE v.t = "none" -> FALSE
      [] v.t = "str" -> v.s # ""
      [] OTHER -> v.n # 0

(***************************************************************************)
(* Strings.  Python's `k in s` on str is substring containment, and        *)
(* str.lower() maps every upper-case letter to its lower-case letter.      *)
(***************************************************************************)
Contains(s, k) ==
    \E i \in 1..(Len(s) - Len(k) + 1) : SubSeq(s, i, i + Len(k) - 1) = k

UpperToLower ==
    "A" :> "a" @@ "B" :> "b" @@ "C" :> "c" @@ "D" :> "d" @@ "E" :> "e" @@
    "F" :> "f" @@ "G" :> "g" @@ "H" :> "h" @@ "I" :> "i" @@ "J" :> "j" @@
    "K" :> "k" @@ "L" :> "l" @@ "M" :> "m" @@ "N" :> "n" @@ "O" :> "o" @@
    "P" :> "p" @@ "Q" :> "q" @@ "R" :> "r" @@ "S" :> "s" @@ "T" :> "t" @@
    "U" :> "u" @@ "V" :> "v" @@ "W" :> "w" @@ "X" :> "x" @@ "Y" :> "y" @@
    "Z" :> "z"

LowerChar(c) == IF c \in DOMAIN UpperToLower THEN UpperToLower[c] ELSE c

RECURSIVE LowerFrom(_, _)
LowerFrom(s, i) ==
    IF i > Len(s) THEN "" ELSE LowerChar(SubSeq(s, i, i)) \o LowerFrom(s, i + 1)

Lower(s) == LowerFrom(s, 1)

(***************************************************************************)
(* Regular expressions, as far as the extractor's patterns use them.       *)
(* Match(n, s, i) is the sequence of the ways pattern n matches s from     *)
(* position i, in re's backtracking order (greedy first): each way is the  *)
(* position after the match and the span of the capture group, if any.     *)
(***************************************************************************)
Digits == {"0", "1", "2", "3", "4", "5", "6", "7", "8", "9"}
Letters ==
    {"a", "b", "c", "d", "e", "f", "g", "h", "i", "j", "k", "l", "m", "n", "o", "p",
     "q", "r", "s", "t", "u", "v", "w", "x", "y", "z"}
Spaces == {" ", "\t", "\n", "\r", "\f"}

CharAt(s, i) == SubSeq(s, i, i)

\* \w on the (lower-cased) message
IsWordChar(c) == c \in Letters \cup DOMAIN UpperToLower \cup Digits \cup {"_"}

InClass(cls, c) ==
    CASE cls = "\\d" -> c \in Digits
      [] cls = "\\s" -> c \in Spaces
      [] cls = "[:\\s]" -> c = ":" \/ c \in Spaces
      [] cls = "[^,\\.]" -> c \notin {",", "."}

Lit(x) == [k |-> "lit", x |-> x]
Rep(cls, lo, hi) == [k |-> "rep", cls |-> cls, lo |-> lo, hi |-> hi]
Opt(n) == [k |-> "opt", n |-> n]
Alt(ns) == [k |-> "alt", ns |-> ns]
Cat(ns) == [k |-> "cat", ns |-> ns]
Grp(n) == [k |-> "grp", n |-> n]
WordB == [k |-> "wb"]
Unbounded == 0 - 1

Way(e, g) == [e |-> e, g |-> g]

\* the longest run of class characters from position i, at most hi of them
RECURSIVE Run(_, _, _, _)
Run(cls, s, i, hi) ==
    IF hi # 0 /\ i <= Len(s) /\ InClass(cls, CharAt(s, i))
    THEN 1 + Run(cls, s, i + 1, IF hi = Unbounded THEN hi ELSE hi - 1)
    ELSE 0

\* ends i+hi, i+hi-1, ..., i+lo
RECURSIVE Down(_, _, _)
Down(i, hi, lo) == IF hi < lo THEN <<>> ELSE <<Way(i + hi, <<>>)>> \o Down(i, hi - 1, lo)

RECURSIVE Match(_, _, _)
RECURSIVE AltFrom(_, _, _, _)
RECURSIVE CatFrom(_, _, _, _)
RECURSIVE Chain(_, _, _, _, _)
RECURSIVE Grouped(_, _, _)

Match(n, s, i) ==
    CASE n.k = "lit" ->
            IF i + Len(n.x) - 1 <= Len(s) /\ SubSeq(s, i, i + Len(n.x) - 1) = n.x
            THEN <<Way(i + Len(n.x), <<>>)>> ELSE <<>>
      [] n.k = "rep" -> Down(i, Run(n.cls, s, i, n.hi), n.lo)
      [] n.k = "opt" -> Match(n.n, s, i) \o <<Way(i, <<>>)>>
      [] n.k = "alt" -> AltFrom(n.ns, 1, s, i)
      [] n.k = "cat" -> CatFrom(n.ns, 1, s, i)
      [] n.k = "grp" -> Grouped(Match(n.n, s, i), 1, i)
      [] n.k = "wb" ->
            IF (i > 1 /\ IsWordChar(CharAt(s, i - 1))) # (i <= Len(s) /\ IsWordChar(CharAt(s, i)))
            THEN <<Way(i, <<>>)>> ELSE <<>>

AltFrom(ns, j, s, i) ==
    IF j > Len(ns) THEN <<>> ELSE Match(ns[j], s, i) \o AltFrom(ns, j + 1, s, i)

CatFrom(ns, j, s, i) ==
    IF j > Len(ns) THEN <<Way(i, <<>>)>>
    ELSE Chain(Match(ns[j], s, i), 1, ns, j, s)

\* for each way w of the head, in order: the ways of the rest from w.e
Chain(ws, k, ns, j, s) ==
    IF k > Len(ws) THEN <<>>
    ELSE LET rest == CatFrom(ns, j + 1, s, ws[k].e)
         IN  [m \in 1..Len(rest) |->
                 Way(rest[m].e, IF rest[m].g # <<>> THEN rest[m].g ELSE ws[k].g)]
             \o Chain(ws, k + 1, ns, j, s)

Grouped(ws, k, i) ==
    IF k > Len(ws) THEN <<>> ELSE <<Way(ws[k].e, <<i, ws[k].e>>)>> \o Grouped(ws, k + 1, i)

\* re.search(n, s): the leftmost start with a match and its first way; <<>> if none.
SearchStarts(n, s) == {i \in 1..(Len(s) + 1) : Match(n, s, i) # <<>>}

Search(n, s) ==
    IF SearchStarts(n, s) = {} THEN <<>>
    ELSE LET i == CHOOSE i \in SearchStarts(n, s) : \A j \in SearchStarts(n, s) : i <= j
             w == Match(n, s, i)[1]
         IN  <<[start |-> i, end |-> w.e,
                group |-> IF w.g = <<>> THEN "" ELSE SubSeq(s, w.g[1], w.g[2] - 1),
                has_group |-> w.g # <<>>]>>

\* str.strip()
RECURSIVE LStrip(_)
LStrip(s) == IF Len(s) > 0 /\ CharAt(s, 1) \in Spaces THEN LStrip(SubSeq(s, 2, Len(s))) ELSE s
RECURSIVE RStrip(_)
RStrip(s) ==
    IF Len(s) > 0 /\ CharAt(s, Len(s)) \in Spaces THEN RStrip(SubSeq(s, 1, Len(s) - 1)) ELSE s
Strip(s) == LStrip(RStrip(s))

\* int() of a run of decimal digits
DigitValue ==
    "0" :> 0 @@ "1" :> 1 @@ "2" :> 2 @@ "3" :> 3 @@ "4" :> 4 @@
    "5" :> 5 @@ "6" :> 6 @@ "7" :> 7 @@ "8" :> 8 @@ "9" :> 9
RECURSIVE ToInt(_)
ToInt(d) == IF d = "" THEN 0 ELSE 10 * ToInt(SubSeq(d, 1, Len(d) - 1)) + DigitValue[CharAt(d, Len(d))]

\* str.isdigit() on ASCII text
IsDigit(x) == x # "" /\ \A i \in 1..Len(x) : CharAt(x, i) \in Digits

(***************************************************************************)
(* Rule-based extractor (conversation_memory.py, extract_tenant_info).     *)
(* Messages are ASCII text, so the pattern alternatives that contain an    *)
(* accented letter can never match and are left out of the lists.          *)
(***************************************************************************)
S0 == Rep("\\s", 0, Unbounded)
S1 == Rep("\\s", 1, Unbounded)
D1 == Rep("\\d", 1, Unbounded)
Words(ws) == Alt([i \in DOMAIN ws |-> Lit(ws[i])])
YearsOrAns == Alt(<<Cat(<<Lit("year"), Opt(Lit("s"))>>), Cat(<<Lit("an"), Opt(Lit("s"))>>)>>)
Months == Cat(<<Lit("month"), Opt(Lit("s"))>>)
MonthsOrMois == Alt(<<Months, Lit("mois")>>)
Rest == Rep("[^,\\.]", 1, Unbounded)

\* index of the first pattern of the list that matches, 0 if none does
RECURSIVE FirstMatching(_, _, _)
FirstMatching(ps, j, s) ==
    IF j > Len(ps) THEN 0
    ELSE IF Search(ps[j], s) # <<>> THEN j ELSE FirstMatching(ps, j + 1, s)

age_patterns ==
    << Cat(<<Grp(D1), S0,
             Alt(<<Cat(<<Lit("year"), Opt(Lit("s")), S0, Lit("old")>>),
                   Cat(<<Lit("an"), Opt(Lit("s"))>>)>>)>>),
       Cat(<<Lit("age"), Rep("[:\\s]", 0, Unbounded), Grp(D1)>>),
       Cat(<<Lit("i"), S0, Lit("am"), S0, Grp(D1), S0, YearsOrAns>>),
       Cat(<<Grp(D1), S0, YearsOrAns, S0, Lit("old")>>) >>

ExtractAge(low) ==
    LET j == FirstMatching(age_patterns, 1, low)
    IN  IF j = 0 THEN <<>>
        ELSE "age" :> PyInt(ToInt(Search(age_patterns[j], low)[1].group))

MaleWords == <<"male", "homme", "man">>
FemaleWords == <<"female", "femme", "woman">>

sex_patterns ==
    << [p |-> Cat(<<WordB, Words(MaleWords \o <<"masculin">>), WordB>>), v |-> "male"],
       [p |-> Cat(<<WordB, Words(FemaleWords \o <<"feminin">>), WordB>>), v |-> "female"],
       [p |-> Cat(<<Lit("i"), S0, Lit("am"), S0, Words(MaleWords)>>), v |-> "male"],
       [p |-> Cat(<<Lit("i"), S0, Lit("am"), S0, Words(FemaleWords)>>), v |-> "female"],
       [p |-> Cat(<<Lit("sex"), Rep("[:\\s]", 0, Unbounded), Words(MaleWords)>>), v |-> "male"],
       [p |-> Cat(<<Lit("sex"), Rep("[:\\s]", 0, Unbounded), Words(FemaleWords)>>), v |-> "female"] >>

Pats(pvs) == [i \in DOMAIN pvs |-> pvs[i].p]

ExtractSex(low) ==
    LET j == FirstMatching(Pats(sex_patterns), 1, low)
    IN  IF j = 0 THEN <<>> ELSE "sex" :> PyStr(sex_patterns[j].v)

occupation_keywords ==
    << "work as", "job", "profession", "travaille comme", "occupation",
       "i am a", "je suis", "i work", "je travaille", "employed as", "employed at" >>

end_patterns ==
    << Lit("."), Lit(","), Cat(<<Rep("\\s", 1, 1), Lit("and"), Rep("\\s", 1, 1)>>),
       Cat(<<Rep("\\s", 1, 1), Lit("but"), Rep("\\s", 1, 1)>>),
       Cat(<<Rep("\\s", 1, 1), Lit("also"), Rep("\\s", 1, 1)>>),
       Cat(<<Rep("\\s", 1, 1), Lit("plus"), Rep("\\s", 1, 1)>>) >>

\* str.find(k) + len(k), as a 0-based offset (k occurs in s)
FindEnd(s, k) ==
    (CHOOSE i \in 1..Len(s) :
        /\ i + Len(k) - 1 <= Len(s) /\ SubSeq(s, i, i + Len(k) - 1) = k
        /\ \A j \in 1..(i - 1) : SubSeq(s, j, j + Len(k) - 1) # k) - 1 + Len(k)

\* the text after the keyword, cut at the nearest end pattern and stripped
OccupationAfter(message, start_idx) ==
    LET tail == SubSeq(message, start_idx + 1, Len(message))
        cuts == {Search(end_patterns[j], tail)[1].start - 1 :
                    j \in {j \in DOMAIN end_patterns : Search(end_patterns[j], tail) # <<>>}}
        cut == IF cuts = {} THEN Len(tail)
               ELSE CHOOSE c \in cuts : \A d \in cuts : c <= d
    IN  Strip(SubSeq(tail, 1, cut))

RECURSIVE OccupationFrom(_, _, _)
OccupationFrom(j, message, low) ==
    IF j > Len(occupation_keywords) THEN <<>>
    ELSE IF Contains(low, occupation_keywords[j])
              /\ Len(OccupationAfter(message, FindEnd(low, occupation_keywords[j]))) > 2
         THEN "occupation" :>
                 PyStr(OccupationAfter(message, FindEnd(low, occupation_keywords[j])))
         ELSE OccupationFrom(j + 1, message, low)

ExtractOccupation(message, low) == OccupationFrom(1, message, low)

D12 == Rep("\\d", 1, 2)
D4 == Rep("\\d", 4, 4)
OnOpt == Opt(Cat(<<Lit("on"), S1>>))

date_patterns ==
    << Cat(<<Words(<<"move in", "move-in", "arrival">>), S1, OnOpt, Grp(Rest)>>),
       Cat(<<Words(<<"want to move">>), S1, OnOpt, Grp(Rest)>>),
       Grp(Cat(<<D12, Opt(Words(<<"st", "nd", "rd", "th">>)), S1,
                 Words(<<"january", "february", "march", "april", "may", "june", "july",
                         "august", "september", "october", "november", "december">>)>>)),
       Grp(Cat(<<D12, Lit("/"), D12, Lit("/"), D4>>)),
       Grp(Cat(<<D12, Lit("-"), D12, Lit("-"), D4>>)),
       Grp(Cat(<<D12, S1,
                 Words(<<"jan", "feb", "mar", "apr", "may", "jun", "jul", "aug", "sep",
                         "oct", "nov", "dec">>)>>)),
       Cat(<<Words(<<"start", "begin", "commencer">>), S1, OnOpt, Grp(Rest)>>),
       Cat(<<Words(<<"available", "disponible">>), S1, Opt(Cat(<<Lit("from"), S1>>)),
             Grp(Rest)>>) >>

ExtractMoveInDate(low) ==
    LET j == FirstMatching(date_patterns, 1, low)
    IN  IF j = 0 THEN <<>>
        ELSE "move_in_date" :> PyStr(Strip(Search(date_patterns[j], low)[1].group))

ForOpt == Opt(Cat(<<Lit("for"), S1>>))
OfOpt == Opt(Cat(<<Lit("of"), S1>>))

duration_patterns ==
    << Cat(<<Grp(D1), S0, MonthsOrMois>>),
       Cat(<<Words(<<"stay", "rester", "remain", "rester">>), S1, ForOpt, Grp(D1), S0,
             MonthsOrMois>>),
       Cat(<<Grp(D1), S0, Words(<<"month", "mois">>), S0, Words(<<"lease", "bail">>)>>),
       Cat(<<Words(<<"duration">>), S0, OfOpt, Grp(D1), S0, MonthsOrMois>>),
       Cat(<<Words(<<"can stay", "peux rester", "peut rester">>), S1, ForOpt, Grp(D1), S0,
             MonthsOrMois>>),
       Cat(<<Words(<<"minimum", "minimum">>), S1, Grp(D1), S0, MonthsOrMois>>),
       Cat(<<Words(<<"long term", "long terme">>), S1, OfOpt, Grp(D1), S0, MonthsOrMois>>) >>

ExtractDuration(low) ==
    LET j == FirstMatching(duration_patterns, 1, low)
    IN  IF j = 0 THEN <<>>
        ELSE "rental_duration" :>
                PyStr(Search(duration_patterns[j], low)[1].group \o " months")

guarantor_patterns ==
    << [p |-> Cat(<<WordB, Words(<<"guarantor", "garant">>), WordB>>), v |-> "yes"],
       [p |-> Cat(<<Lit("have"), S1, Lit("a"), S1, Lit("guarantor")>>), v |-> "yes"],
       [p |-> Cat(<<Lit("ai"), S1, Lit("un"), S1, Lit("garant")>>), v |-> "yes"],
       [p |-> Cat(<<Lit("no"), S1, Lit("guarantor")>>), v |-> "no"],
       [p |-> Cat(<<Lit("pas"), S1, Lit("de"), S1, Lit("garant")>>), v |-> "no"],
       [p |-> Cat(<<Lit("need"), S1, Lit("guarantor")>>), v |-> "need"],
       [p |-> Cat(<<Lit("besoin"), S1, Lit("d'un"), S1, Lit("garant")>>), v |-> "need"],
       [p |-> Cat(<<Lit("garantie"), S1, Lit("visale")>>), v |-> "visale"],
       [p |-> Cat(<<Lit("visale"), S1, Lit("guarantee")>>), v |-> "visale"] >>

guarantor_details_patterns ==
    << [p |-> Words(<<"father", "dad", "papa">>), v |-> "father"],
       [p |-> Words(<<"mother", "mom", "maman">>), v |-> "mother"],
       [p |-> Words(<<"parent", "parents">>), v |-> "parent"],
       [p |-> Words(<<"accountant", "comptable">>), v |-> "accountant"],
       [p |-> Words(<<"employer", "employeur">>), v |-> "employer"],
       [p |-> Words(<<"friend", "ami">>), v |-> "friend"],
       [p |-> Words(<<"sibling">>), v |-> "sibling"] >>

ExtractGuarantor(low) ==
    LET j == FirstMatching(Pats(guarantor_patterns), 1, low)
        d == FirstMatching(Pats(guarantor_details_patterns), 1, low)
    IN  IF j = 0 THEN <<>>
        ELSE ("guarantor_status" :> PyStr(guarantor_patterns[j].v))
             @@ (IF guarantor_patterns[j].v = "yes" /\ d # 0
                 THEN "guarantor_details" :> PyStr(guarantor_details_patterns[d].v)
                 ELSE <<>>)

ToOpt == Opt(Cat(<<Lit("to"), S1>>))
AOpt == Opt(Cat(<<Lit("a"), S1>>))
Schedule == Words(<<"schedule", "organiser">>)
Viewing == Words(<<"viewing", "visite">>)

viewing_patterns ==
    << [p |-> Cat(<<Words(<<"would like", "souhaite", "veux">>), S1, ToOpt, Schedule, S1,
                    AOpt, Viewing>>), v |-> TRUE],
       [p |-> Cat(<<Words(<<"interested in">>), S1, AOpt, Viewing>>), v |-> TRUE],
       [p |-> Cat(<<Words(<<"can", "peux", "peut">>), S1, Opt(Cat(<<Lit("we"), S1>>)),
                    Schedule, S1, AOpt, Viewing>>), v |-> TRUE],
       [p |-> Words(<<"not interested">>), v |-> FALSE],
       [p |-> Words(<<"no viewing", "pas de visite">>), v |-> FALSE] >>

ExtractViewing(low) ==
    LET j == FirstMatching(Pats(viewing_patterns), 1, low)
    IN  IF j = 0 THEN <<>> ELSE "viewing_interest" :> PyBool(viewing_patterns[j].v)

\* availability_patterns is one flat list of strings: the labels 'weekends',
\* 'weekdays', ... are list elements too, and are used as patterns like the rest.
\* Each entry: the pattern, and its source text (the value when it has no group).
availability_patterns ==
    << [p |-> Cat(<<Words(<<"available", "disponible">>), S1, OnOpt, Grp(Rest)>>), x |-> ""],
       [p |-> Cat(<<Words(<<"free", "libre">>), S1, OnOpt, Grp(Rest)>>), x |-> ""],
       [p |-> Cat(<<Words(<<"can meet", "peux rencontrer">>), S1, OnOpt, Grp(Rest)>>), x |-> ""],
       [p |-> Cat(<<Words(<<"prefer">>), S1, Grp(Rest)>>), x |-> ""],
       [p |-> Alt(<<Cat(<<Lit("weekend"), Opt(Lit("s"))>>), Lit("week-end")>>),
        x |-> "(?:weekends?|week-end)"],
       [p |-> Lit("weekends"), x |-> "weekends"],
       [p |-> Alt(<<Cat(<<Lit("weekday"), Opt(Lit("s"))>>), Lit("semaine")>>),
        x |-> "(?:weekdays?|semaine)"],
       [p |-> Lit("weekdays"), x |-> "weekdays"],
       [p |-> Alt(<<Cat(<<Lit("evening"), Opt(Lit("s"))>>), Lit("soir")>>),
        x |-> "(?:evenings?|soir)"],
       [p |-> Lit("evenings"), x |-> "evenings"],
       [p |-> Alt(<<Cat(<<Lit("morning"), Opt(Lit("s"))>>), Lit("matin")>>),
        x |-> "(?:mornings?|matin)"],
       [p |-> Lit("mornings"), x |-> "mornings"] >>

ExtractAvailability(low) ==
    LET j == FirstMatching(Pats(availability_patterns), 1, low)
        m == Search(availability_patterns[j].p, low)[1]
    IN  IF j = 0 THEN <<>>
        ELSE "availability" :>
                PyStr(IF m.has_group THEN Strip(m.group) ELSE availability_patterns[j].x)

french_words == <<"bonjour", "salut", "merci", "oui", "non", "je", "suis", "veux", "peux", "avoir">>
english_words == <<"hello", "hi", "thanks", "yes", "no", "i", "am", "want", "can", "have">>

\* sum(1 for word in words if word in message_lower)
WordCount(ws, low) == Cardinality({i \in DOMAIN ws : Contains(low, ws[i])})

ExtractLanguage(low) ==
    IF WordCount(french_words, low) > WordCount(english_words, low)
    THEN "language_preference" :> PyStr("French")
    ELSE IF WordCount(english_words, low) > WordCount(french_words, low)
    THEN "language_preference" :> PyStr("English")
    ELSE <<>>

extract_tenant_info(message) ==
    LET low == Lower(message)
    IN  ExtractAge(low) @@ ExtractSex(low) @@ ExtractOccupation(message, low)
        @@ ExtractMoveInDate(low) @@ ExtractDuration(low) @@ ExtractGuarantor(low)
        @@ ExtractViewing(low) @@ ExtractAvailability(low) @@ ExtractLanguage(low)

(***************************************************************************)
(* Handoff trigger detector (agent.py, detect_handoff_triggers).           *)
(***************************************************************************)
manual_trigger_keywords ==
    << "speak to someone", "human agent", "real person", "talk to owner",
       "speak to landlord", "talk to human", "speak to manager", "contact owner",
       "speak to property owner", "talk to someone real", "human help",
       "speak with owner", "contact landlord", "speak to manager" >>

emotional_keywords ==
    << "frustrated", "angry", "upset", "disappointed", "not happy", "unhappy",
       "urgent", "emergency", "asap", "immediately", "right now", "today",
       "complicated", "complex", "difficult", "problem", "issue", "trouble" >>

communication_difficulty_keywords ==
    << "sorry", "not understand", "confused", "help", "don't understand",
       "can't understand" >>

\* for keyword in manual_trigger_keywords: if keyword in user_input_lower: ...; break
ManualHits(low) ==
    {i \in DOMAIN manual_trigger_keywords : Contains(low, manual_trigger_keywords[i])}

FirstManual(low) ==
    manual_trigger_keywords[
        CHOOSE i \in ManualHits(low) : \A j \in ManualHits(low) : i <= j]

\* sum(1 for keyword in emotional_keywords if keyword in user_input_lower)
EmotionalCount(low) ==
    Cardinality({i \in DOMAIN emotional_keywords : Contains(low, emotional_keywords[i])})

\* any(word in user_input_lower for word in communication_difficulty_keywords)
DifficultyHit(low) ==
    \E i \in DOMAIN communication_difficulty_keywords :
        Contains(low, communication_difficulty_keywords[i])

EmotionalThreshold == 2

AfterManual(low) ==
    LET t0 == [handoff_triggered |-> FALSE, handoff_reason |-> "",
               confidence_level |-> "high", escalation_priority |-> "low"]
    IN  IF ManualHits(low) # {}
        THEN [t0 EXCEPT !.handoff_triggered = TRUE,
                        !.handoff_reason =
                            "Explicit request for human: '" \o FirstManual(low) \o "'",
                        !.escalation_priority = "medium"]
        ELSE t0

\* The emotional rule with its threshold off by one: a single keyword fires it.
AfterEmotional_OneKeyword(low, t) ==
    IF EmotionalCount(low) >= EmotionalThreshold - 1
    THEN [t EXCEPT !.handoff_triggered = TRUE,
                   !.handoff_reason = "Emotional situation detected",
                   !.escalation_priority = "high"]
    ELSE t

AfterEmotional(low, t) ==
    IF EmotionalCount(low) >= EmotionalThreshold
    THEN [t EXCEPT !.handoff_triggered = TRUE,
                   !.handoff_reason = "Emotional situation detected",
                   !.escalation_priority = "high"]
    ELSE t

\* The rule's guard without the test of language_preference: any profile will do.
LanguageBarrierApplies_AnyProfile(session_id, profile) ==
    /\ session_id # None
    /\ profile # <<>>

\* The rule runs only for a truthy session_id whose profile lookup returns a
\* profile with a truthy language_preference.
LanguageBarrierApplies(session_id, profile) ==
    /\ session_id # None
    /\ profile # <<>>
    /\ Truthy(profile[1]["language_preference"])

\* The language-barrier rule without its keyword test: any message fires it.
AfterLanguageBarrier_AnyMessage(low, session_id, profile, t) ==
    IF LanguageBarrierApplies(session_id, profile)
    THEN [t EXCEPT !.handoff_triggered = TRUE,
                   !.handoff_reason = "Potential language barrier",
                   !.escalation_priority = "medium"]
    ELSE t

AfterLanguageBarrier(low, session_id, profile, t) ==
    IF LanguageBarrierApplies(session_id, profile) /\ DifficultyHit(low)
    THEN [t EXCEPT !.handoff_triggered = TRUE,
                   !.handoff_reason = "Potential language barrier",
                   !.escalation_priority = "medium"]
    ELSE t

\* The detector with one more rule: a profile without an age is a trigger of its own.
detect_handoff_triggers_MissingInfo(user_input, session_id, profile) ==
    LET low == Lower(user_input)
        t == AfterLanguageBarrier(low, session_id, profile,
                 AfterEmotional(low, AfterManual(low)))
    IN  IF profile # <<>> /\ ~Truthy(profile[1]["age"])
        THEN [t EXCEPT !.handoff_triggered = TRUE] ELSE t

\* profile is what conversation_memory.get_tenant_profile(session_id) returns:
\* <<>> for None, <<p>> for a TenantProfile p.
detect_handoff_triggers(user_input, session_id, profile) ==
    LET low == Lower(user_input)
    IN  AfterLanguageBarrier(low, session_id, profile,
            AfterEmotional(low, AfterManual(low)))

(***************************************************************************)
(* Messages.  The extractor and the detector are functions of the message  *)
(* text (and, for the detector, of whether the language-barrier rule       *)
(* applies), so their values on the messages used are tabulated once.      *)
(***************************************************************************)
Messages == {"hello", "I am 25 years old", "sorry, can I speak to someone"}

Greetings == {"hello", "hi", "bonjour", "salut", "Hello", "HI", "Bonjour", "SALUT", " hi "}

DetectorMessages ==
    Greetings \cup
    { "I want to speak to someone", "can I talk to owner", "human help",
      "I need human help please", "sorry, can I speak to manager",
      "I am frustrated, let me speak to landlord",
      "I am frustrated and angry, get me a human agent",
      "contact owner and speak to landlord",
      "this is urgent and I am upset", "sorry I am confused",
      "I don't understand", "What is the rent?", "I am 25 years old",
      "hello, I need help", "sorry, this is urgent and I am upset" }

\* The rule-based extraction of a message in play
RuleBased(message) == memo.extracted[message]

WithLanguage(lp) == <<[language_preference |-> lp]>>

\* The detector's result depends on the session and the profile only through
\* LanguageBarrierApplies.
Detect(user_input, session_id, profile) ==
    memo.triggers[user_input][LanguageBarrierApplies(session_id, profile)]

(***************************************************************************)
(* Profile store (conversation_memory.py, ConversationMemory).             *)
(***************************************************************************)
Sessions == {"s1", "s2"}

\* TenantProfile's attributes.  The timestamps and the lease/application/notes
\* attributes are carried like property_interest and are not modelled apart.
TenantProfileAttrs ==
    {"age", "sex", "occupation", "move_in_date", "rental_duration",
     "guarantor_status", "guarantor_details", "viewing_interest", "availability",
     "language_preference", "status", "property_interest", "conversation_turns"}

required_fields ==
    <<"age", "sex", "occupation", "move_in_date", "rental_duration", "guarantor_status">>

RequiredSet == {required_fields[i] : i \in DOMAIN required_fields}

\* class TenantStatus(Enum)
TenantStatus ==
    {"prospect", "qualified", "viewing_scheduled", "application_submitted",
     "approved", "active_tenant", "former_tenant", "rejected", "withdrawn"}

\* TenantProfile(): the dataclass defaults.
TenantProfile ==
    [a \in TenantProfileAttrs |->
        CASE a = "status" -> PyStr("prospect")
          [] a = "conversation_turns" -> PyInt(0)
          [] OTHER -> PyNone]

\* The attributes get_or_create_session copies from the stored row; every other
\* attribute (status among them) takes the dataclass default.
RehydratedAttrs ==
    {"age", "sex", "occupation", "move_in_date", "rental_duration",
     "guarantor_status", "guarantor_details", "viewing_interest", "availability",
     "language_preference", "conversation_turns"}

Rehydrate(row) ==
    [a \in TenantProfileAttrs |-> IF a \in RehydratedAttrs THEN row[a] ELSE TenantProfile[a]]

NewSession(profile) ==
    [tenant_profile |-> profile, conversation_history |-> <<>>, handoff_completed |-> FALSE]

\* The session get_or_create_session(s) returns, given the store and the table.
get_or_create_session(convs, rp, s) ==
    IF convs[s] # <<>> THEN convs[s][1]
    ELSE IF rp[s] # <<>> THEN NewSession(Rehydrate(rp[s][1]))
    ELSE NewSession(TenantProfile)

\* ConversationMemory.get_tenant_profile(s): <<p>> or <<>> (None); creates nothing.
get_tenant_profile(convs, rp, s) ==
    IF convs[s] # <<>> THEN <<convs[s][1].tenant_profile>>
    ELSE IF rp[s] # <<>> THEN <<Rehydrate(rp[s][1])>>
    ELSE <<>>

\* get_missing_information(s), as a sequence in the fixed order.
RECURSIVE MissingFrom(_, _)
MissingFrom(p, i) ==
    IF i > Len(required_fields) THEN <<>>
    ELSE (IF Truthy(p[required_fields[i]]) THEN <<>> ELSE <<required_fields[i]>>)
         \o MissingFrom(p, i + 1)

\* get_missing_information as it would be if it looked a session that is not in
\* memory up in the tenants table.
get_missing_information_FromTable(convs, s) ==
    IF convs[s] # <<>> THEN MissingFrom(convs[s][1].tenant_profile, 1)
    ELSE IF repo[s] # <<>> THEN MissingFrom(Rehydrate(repo[s][1]), 1)
    ELSE required_fields

get_missing_information(convs, s) ==
    IF convs[s] = <<>> THEN required_fields
    ELSE MissingFrom(convs[s][1].tenant_profile, 1)

\* for key, value in updates.items(): if hasattr(profile, key): setattr(...)
MergeFields(p, updates) ==
    [a \in TenantProfileAttrs |-> IF a \in DOMAIN updates THEN updates[a] ELSE p[a]]

\* profile.conversation_turns += 1 raises TypeError unless the attribute is a number.
TurnsIncrementRaises(p) == p["conversation_turns"].t \notin {"int", "bool"}

IncrementTurns(p) == [p EXCEPT !["conversation_turns"] = PyInt(@.n + 1)]

_should_auto_qualify(p) ==
    /\ \A i \in DOMAIN required_fields : Truthy(p[required_fields[i]])
    /\ p["status"] = PyStr("prospect")

AutoQualify(p) ==
    IF _should_auto_qualify(p) THEN [p EXCEPT !["status"] = PyStr("qualified")] ELSE p

\* update_tenant_profile on profile p: the profile it leaves, and whether it raised
\* (the attributes are set in place before the counter is touched).
update_tenant_profile(p, updates) ==
    LET m == MergeFields(p, updates)
    IN  IF TurnsIncrementRaises(m)
        THEN [profile |-> m, raised |-> TRUE]
        ELSE [profile |-> AutoQualify(IncrementTurns(m)), raised |-> FALSE]

\* _sync_to_persistent_storage: store_tenant_profile writes asdict(profile) when the
\* table answers (ok), and changes nothing, raising nothing, when it does not.
_sync_to_persistent_storage(rp, s, profile, ok) ==
    IF ok THEN [rp EXCEPT ![s] = <<profile>>] ELSE rp

\* The sync as it would be without its except clause: a failed save reaches the caller.
SyncRaises_Uncaught(ok) == ~ok

\* lines 209-217: the body of _sync_to_persistent_storage is one try whose except
\* prints; store_tenant_profile returning False is printed too.  Nothing is raised,
\* whether the save works (ok) or not.
SyncRaises(ok) == FALSE

(***************************************************************************)
(* LLM-structured extractor (agent.py, extract_tenant_info_llm).           *)
(* An LLM result is the parsed TenantInfo: fields maps a field name to its *)
(* value (None or a str) and its confidence in hundredths.                 *)
(***************************************************************************)
ConfidenceThreshold == 70

Field(value, confidence) == [value |-> value, confidence |-> confidence]

\* The gate without its confidence test: every non-blank value is kept.
GateFields_AnyConfidence(result) ==
    LET kept == {f \in DOMAIN result.fields :
                    /\ Truthy(result.fields[f].value)
                    /\ Strip(result.fields[f].value.s) # ""}
    IN  [f \in kept |->
            IF f = "age" /\ IsDigit(result.fields[f].value.s)
            THEN PyInt(ToInt(result.fields[f].value.s))
            ELSE result.fields[f].value]

\* lines 214-233: the confidence gate, the blank-value test, int() of a numeric age
\* and the language preference carried through.
GateFields(result) ==
    LET kept == {f \in DOMAIN result.fields :
                    /\ result.fields[f].confidence >= ConfidenceThreshold
                    /\ Truthy(result.fields[f].value)
                    /\ Strip(result.fields[f].value.s) # ""}
    IN  [f \in kept |->
            IF f = "age" /\ IsDigit(result.fields[f].value.s)
            THEN PyInt(ToInt(result.fields[f].value.s))
            ELSE result.fields[f].value]

ProcessResult(result) ==
    IF Truthy(result.language_preference)
    THEN ("language_preference" :> result.language_preference) @@ GateFields(result)
    ELSE GateFields(result)

\* The extractor without its fallback: a failure yields an empty map.
extract_tenant_info_llm_NoFallback(user_input, chain, llm) ==
    IF chain # "ready" \/ llm = <<>> THEN <<>>
    ELSE ProcessResult(llm[1])

\* chain is the extraction chain's state after get_extraction_chain(); llm is what
\* chain.invoke does: it raises (<<>>) or returns a result (<<r>>).
extract_tenant_info_llm(user_input, chain, llm) ==
    IF chain # "ready" \/ llm = <<>> THEN RuleBased(user_input)
    ELSE ProcessResult(llm[1])

\* The fields of the profile that known_info summarises (lines 165-173)
known_info_fields ==
    {"age", "sex", "occupation", "move_in_date", "rental_duration", "guarantor_status",
     "language_preference"}

\* known_info: {} without a session id or without a profile, else the seven
\* fields of the profile, whatever they hold.
known_info(convs, rp, session_id) ==
    IF session_id = None \/ get_tenant_profile(convs, rp, session_id) = <<>> THEN <<>>
    ELSE [f \in known_info_fields |-> get_tenant_profile(convs, rp, session_id)[1][f]]

\* The list of line 183
all_fields ==
    <<"age", "sex", "occupation", "move_in_date", "rental_duration", "guarantor_status",
      "language_preference">>

\* missing_fields: [] unless the session has a profile (lines 157, 162-176)
missing_fields(convs, rp, session_id) ==
    IF session_id = None \/ get_tenant_profile(convs, rp, session_id) = <<>> THEN <<>>
    ELSE get_missing_information(convs, session_id)

\* focus_fields: a copy of missing_fields (179), replaced by the seven fields
\* when there is no session id or known_info is an empty dict (182-183).
focus_fields(convs, rp, session_id) ==
    IF session_id = None \/ DOMAIN known_info(convs, rp, session_id) = {}
    THEN all_fields
    ELSE missing_fields(convs, rp, session_id)

\* str() of a list of field names: "['age', 'sex']", "[]"
RECURSIVE JoinQuoted(_)
JoinQuoted(l) ==
    IF l = <<>> THEN ""
    ELSE "'" \o Head(l) \o "'" \o (IF Len(l) = 1 THEN "" ELSE ", " \o JoinQuoted(Tail(l)))

StrList(l) == "[" \o JoinQuoted(l) \o "]"

\* The context that chain.invoke is given (lines 199-205): the two lists, as text.
ExtractionRequest(convs, rp, session_id) ==
    [missing_fields |-> StrList(missing_fields(convs, rp, session_id)),
     focus_fields |-> StrList(focus_fields(convs, rp, session_id))]

(***************************************************************************)
(* Orchestrator (agent.py, handle_message).                                *)
(***************************************************************************)
TestModeReply ==
    "Hello! I'm the Rental Genie. I'm currently in test mode. In a real setup, I would help you with rental inquiries. Please set up your OPENAI_API_KEY environment variable to enable full functionality."

ClosingReply ==
    "I've connected you with the property owner. They will be in touch with you shortly to assist with your inquiry."

HandoffReply ==
    "Thank you for your inquiry. The property owner will be in touch with you shortly to assist with your specific needs."

ErrorReply(exc) == "I'm having trouble processing your request right now. Error: " \o exc

\* str(e) of the exceptions the handler can meet
MinThresholdError ==
    "ConversationMemory.get_missing_information() got an unexpected keyword argument 'min_threshold'"
TurnsTypeError(v) ==
    IF v.t = "str" THEN "can only concatenate str (not \"int\") to str"
    ELSE "unsupported operand type(s) for +=: 'NoneType' and 'int'"
LowerAttributeError == "'bool' object has no attribute 'lower'"
UnknownVersionError(version) ==
    "Unknown prompt version: " \o version \o ". Available versions: ['v1', 'v2', 'v3', 'current']"

PromptVersions == {"v1", "v2", "v3", "current"}

\* re.search(r'\{.*\}', response, re.DOTALL): from the first "{" to the last "}"
Opens(r) == {i \in 1..Len(r) : CharAt(r, i) = "{"}
Closes(r) == {i \in 1..Len(r) : CharAt(r, i) = "}"}
First(S) == CHOOSE i \in S : \A j \in S : i <= j
Latest(S) == CHOOSE i \in S : \A j \in S : i >= j
HasJsonSpan(r) == Opens(r) # {} /\ \E j \in Closes(r) : j > First(Opens(r))
JsonSpan(r) == SubSeq(r, First(Opens(r)), Latest(Closes(r)))

\* json.loads on the texts the reply capability is taken to send; any other text
\* makes it raise, and extract_json_from_response then returns {}.
JsonLoads ==
    "{\"handoff_triggered\": \"true\", \"summary\": \"Tenant asks for the owner.\"}" :>
        ("handoff_triggered" :> PyStr("true") @@ "summary" :> PyStr("Tenant asks for the owner."))
    @@ "{\"handoff_triggered\": true}" :> ("handoff_triggered" :> PyBool(TRUE))
    @@ "{\"handoff_triggered\": \"false\"}" :> ("handoff_triggered" :> PyStr("false"))

extract_json_from_response(response) ==
    IF HasJsonSpan(response) /\ JsonSpan(response) \in DOMAIN JsonLoads
    THEN JsonLoads[JsonSpan(response)] ELSE <<>>

\* str.replace(old, "") for an old that occurs once, as the span does here
RemoveSpan(r) ==
    SubSeq(r, 1, First(Opens(r)) - 1) \o SubSeq(r, Latest(Closes(r)) + 1, Len(r))

\* lines 563-569
CleanResponse(response) ==
    IF extract_json_from_response(response) # <<>> THEN Strip(RemoveSpan(response))
    ELSE response

PlainResponse == "Sure! How old are you?"
HandoffResponse ==
    "I will ask the owner. {\"handoff_triggered\": \"true\", \"summary\": \"Tenant asks for the owner.\"}"
BoolFlagResponse == "Noted. {\"handoff_triggered\": true}"

\* What the reply capability does: it raises (<<>>) or returns a response.
GenOutcomes == {<<>>, <<PlainResponse>>, <<HandoffResponse>>, <<BoolFlagResponse>>}

Responses == {g[1] : g \in GenOutcomes \ {<<>>}}

Parsed(response) == memo.parsed[response]

Cleaned(response) == memo.cleaned[response]

\* The pure text functions, applied once to every text in play.
Memo ==
    [extracted |-> [m \in Messages |-> extract_tenant_info(m)],
     triggers |->
        [m \in Messages |->
            [applies \in BOOLEAN |->
                detect_handoff_triggers(m, IF applies THEN "s1" ELSE None,
                    IF applies THEN WithLanguage(PyStr("French")) ELSE <<>>)]],
     parsed |-> [r \in Responses |-> extract_json_from_response(r)],
     cleaned |-> [r \in Responses |-> CleanResponse(r)]]

\* json_data.get("handoff_triggered", "false").lower() raises on a non-str value
JsonFlagRaises(json_data) ==
    "handoff_triggered" \in DOMAIN json_data /\ json_data["handoff_triggered"].t # "str"

JsonFlag(json_data) ==
    "handoff_triggered" \in DOMAIN json_data
        /\ Lower(json_data["handoff_triggered"].s) = "true"

Result(convs, rp, chain, reply, outcome, exc, extracted, notified) ==
    [conversations |-> convs, repo |-> rp, extraction_chain |-> chain, reply |-> reply,
     outcome |-> outcome, exc |-> exc, extracted |-> extracted, notified |-> notified]

\* Lines 489-576, reached with conversation memory updated (convs, rp): the reply
\* capability answers (gen = <<response>>) or raises (gen = <<>>, str(e) = genExc).
ReplyAndHandoff(convs, rp, chain, user_input, session_id, extracted, notified, version, gen, genExc, okTurn) ==
    IF version \notin PromptVersions
    THEN Result(convs, rp, chain, ErrorReply(UnknownVersionError(version)), "error",
                UnknownVersionError(version), extracted, notified)
    ELSE IF gen = <<>>
    THEN Result(convs, rp, chain, ErrorReply(genExc), "error", genExc, extracted, notified)
    ELSE
    LET response == gen[1]
        json_data == Parsed(response)
        profile == IF session_id = None THEN <<>> ELSE get_tenant_profile(convs, rp, session_id)
        handoff_triggers == Detect(user_input, session_id, profile)
    IN  IF ~handoff_triggers.handoff_triggered /\ JsonFlagRaises(json_data)
        THEN Result(convs, rp, chain, ErrorReply(LowerAttributeError), "error",
                    LowerAttributeError, extracted, notified)
        ELSE IF (handoff_triggers.handoff_triggered \/ JsonFlag(json_data))
                /\ session_id # None
        THEN LET sess == get_or_create_session(convs, rp, session_id)
                 summary == IF "summary" \in DOMAIN json_data
                            THEN json_data["summary"] ELSE PyNone
             IN  Result([convs EXCEPT ![session_id] =
                             <<[sess EXCEPT !.handoff_completed = TRUE]>>],
                        rp, chain,
                        IF Truthy(summary)
                        THEN "Thank you for your inquiry. " \o summary.s
                             \o " The property owner will be in touch with you shortly to assist with your specific needs."
                        ELSE HandoffReply,
                        "handoff", "", extracted, notified \cup {"handoff"})
        ELSE IF session_id # None
        THEN LET sess == get_or_create_session(convs, rp, session_id)
                 hist == Append(sess.conversation_history,
                                [user_message |-> user_input, agent_response |-> response,
                                 extracted_info |-> extracted])
                 p == [sess.tenant_profile EXCEPT !["conversation_turns"] = PyInt(Len(hist))]
             IN  Result([convs EXCEPT ![session_id] =
                             <<[sess EXCEPT !.conversation_history = hist,
                                            !.tenant_profile = p]>>],
                        _sync_to_persistent_storage(rp, session_id, p, okTurn), chain,
                        Cleaned(response), "normal", "", extracted, notified)
        ELSE Result(convs, rp, chain, Cleaned(response), "normal", "", extracted,
                    notified)

\* def get_missing_information(self, session_id): the parameters a call may name.
get_missing_information_params == {"session_id"}

\* A call that passes a keyword argument the function does not take raises TypeError.
KeywordRejected(keyword, params) == keyword \notin params

\* handle_message from line 420 on (the LLM is available).  chainOk: whether the
\* extraction chain can be built when it is not cached yet; llm, gen: what the two
\* LLM calls do (<<>>: raise); okMerge, okTurn: whether the table takes the syncs.
HandleAvailable(user_input, session_id, version, chainOk, llm, gen, genExc, okMerge, okTurn) ==
    LET convs1 == IF session_id = None THEN conversations
                  ELSE [conversations EXCEPT ![session_id] =
                           <<get_or_create_session(conversations, repo, session_id)>>]
        chain == IF extraction_chain = "unset" /\ chainOk THEN "ready" ELSE extraction_chain
        extracted == extract_tenant_info_llm(user_input, chain, llm)
    IN  IF session_id = None
        THEN ReplyAndHandoff(convs1, repo, chain, user_input, session_id, extracted, {},
                             version, gen, genExc, okTurn)
        ELSE IF convs1[session_id][1].handoff_completed
        THEN Result(convs1, repo, extraction_chain, ClosingReply, "closed", "", <<>>, {})
        ELSE
        LET sess == convs1[session_id][1]
            \* lines 430-438: the new-session notification
            notified == IF Len(sess.conversation_history) = 0 THEN {"session"} ELSE {}
            \* lines 444-445: the merge, for a non-empty extraction
            res == IF extracted = <<>> THEN [profile |-> sess.tenant_profile, raised |-> FALSE]
                   ELSE update_tenant_profile(sess.tenant_profile, extracted)
            convs2 == [convs1 EXCEPT ![session_id] = <<[sess EXCEPT !.tenant_profile = res.profile]>>]
            rp2 == IF extracted = <<>> \/ res.raised THEN repo
                   ELSE _sync_to_persistent_storage(repo, session_id, res.profile, okMerge)
        IN  IF res.raised
            THEN Result(convs2, rp2, chain,
                        ErrorReply(TurnsTypeError(res.profile["conversation_turns"])), "error",
                        TurnsTypeError(res.profile["conversation_turns"]), extracted, notified)
            \* line 451: get_missing_information(session_id, min_threshold=3)
            ELSE IF KeywordRejected("min_threshold", get_missing_information_params)
            THEN Result(convs2, rp2, chain, ErrorReply(MinThresholdError), "error",
                        MinThresholdError, extracted, notified)
            ELSE ReplyAndHandoff(convs2, rp2, chain, user_input, session_id, extracted,
                                 notified, version, gen, genExc, okTurn)

(***************************************************************************)
(* Bounds and inputs.                                                      *)
(***************************************************************************)
MaxTurns == 2
MaxHistory == 1

AllSix ==
    "age" :> PyInt(25) @@ "sex" :> PyStr("male") @@ "occupation" :> PyStr("engineer") @@
    "move_in_date" :> PyStr("september") @@ "rental_duration" :> PyStr("12 months") @@
    "guarantor_status" :> PyStr("yes")

OtherFive == [f \in RequiredSet \ {"age"} |-> AllSix[f]]

\* Field maps naming required fields only.
RequiredMaps == {"age" :> PyInt(25), OtherFive}

\* Field maps naming no required field.
OptionalMaps == {"language_preference" :> PyStr("French"), "nickname" :> PyStr("x"), <<>>}

\* Field maps that carry an empty value, or an attribute that is no tenant datum.
OddMaps == {"age" :> PyNone, "move_in_date" :> PyStr(""), "status" :> PyStr("qualified")}

FieldMaps == RequiredMaps \cup OptionalMaps \cup OddMaps

StatusInputs == {"prospect", "active_tenant"}

AdditionalData == {<<>>, AllSix}

LLMOutcomes ==
    { <<>>,
      <<[fields |-> "age" :> Field(PyStr("25"), 90) @@ "sex" :> Field(PyStr("male"), 50),
         language_preference |-> PyNone]>>,
      <<[fields |-> "status" :> Field(PyStr("qualified"), 95),
         language_preference |-> PyStr("French")]>> }

GenError == "Connection error."

\* Prompt version and reply-capability outcome of a call.
ReplyInputs ==
    {[version |-> "current", gen |-> g] : g \in GenOutcomes}
        \cup {[version |-> "v9", gen |-> <<PlainResponse>>]}

\* Replies drawn for a call that names a session: a plain one and one with a handoff
\* flag.
SessionReplies == {<<PlainResponse>>, <<HandoffResponse>>}

\* Outcomes of a write to the tenants table: Spec takes the table to accept every
\* write.
SyncOutcomes == {TRUE}

\* get_extraction_chain() builds the chain once; whether that works matters only then.
ChainInputs(chain) == IF chain = "unset" THEN BOOLEAN ELSE {TRUE}

\* The record of an operation: its arguments (gen: what the reply capability did in a
\* handle_message call), what it returned, and which notifiers it invoked.
Op(op, sid, updates, msg, gen, reply, outcome, exc, notified) ==
    [op |-> op, sid |-> sid, updates |-> updates, user_input |-> msg, gen |-> gen,
     reply |-> reply, outcome |-> outcome, exc |-> exc, notified |-> notified]

\* conversation_turns of the session an operation on s would work on
TurnsOf(s) == get_or_create_session(conversations, repo, s).tenant_profile["conversation_turns"]
HistoryOf(s) == get_or_create_session(conversations, repo, s).conversation_history

(***************************************************************************)
(* The operations as actions.                                              *)
(***************************************************************************)
GetOrCreateSession(s) ==
    /\ conversations' = [conversations EXCEPT ![s] = <<get_or_create_session(conversations, repo, s)>>]
    /\ pre' = conversations[s]
    /\ last' = Op("get_or_create_session", s, <<>>, "", <<>>, "", "ok", "", {})
    /\ UNCHANGED <<repo, llm_available, extraction_chain, detIn, detOut, extVars, calls, memo>>

UpdateTenantProfile(s, updates, ok) ==
    LET sess == get_or_create_session(conversations, repo, s)
        res == update_tenant_profile(sess.tenant_profile, updates)
    IN  /\ conversations' =
              [conversations EXCEPT ![s] = <<[sess EXCEPT !.tenant_profile = res.profile]>>]
        /\ repo' = IF res.raised THEN repo
                   ELSE _sync_to_persistent_storage(repo, s, res.profile, ok)
        /\ pre' = conversations[s]
        /\ last' = Op("update_tenant_profile", s, updates, "", <<>>, "",
                      IF res.raised \/ SyncRaises(ok) THEN "raised" ELSE "ok", "", {})
        /\ UNCHANGED <<llm_available, extraction_chain, detIn, detOut, extVars, calls, memo>>

\* supabase_utils.update_tenant_status: rejects an invalid status, else PUTs the
\* status and the non-None additional data onto the row, if there is one.
repo_update_tenant_status(rp, s, new_status, additional_data, ok) ==
    IF ~ok \/ new_status \notin TenantStatus \/ rp[s] = <<>> THEN rp
    ELSE [rp EXCEPT ![s] =
            <<[a \in TenantProfileAttrs |->
                 IF a \in DOMAIN additional_data /\ additional_data[a].t # "none"
                 THEN additional_data[a]
                 ELSE IF a = "status" THEN PyStr(new_status) ELSE rp[s][1][a]]>>]

UpdateTenantStatus(s, new_status, additional_data, ok) ==
    LET sess == get_or_create_session(conversations, repo, s)
        p == MergeFields([sess.tenant_profile EXCEPT !["status"] = PyStr(new_status)],
                         additional_data)
    IN  /\ conversations' = [conversations EXCEPT ![s] = <<[sess EXCEPT !.tenant_profile = p]>>]
        /\ repo' = _sync_to_persistent_storage(
                       repo_update_tenant_status(repo, s, new_status, additional_data, ok),
                       s, p, ok)
        /\ pre' = conversations[s]
        /\ last' = Op("update_tenant_status", s, additional_data, new_status, <<>>, "", "ok", "", {})
        /\ UNCHANGED <<llm_available, extraction_chain, detIn, detOut, extVars, calls, memo>>

\* add_conversation_turn as it would be if it counted the turn on top of the
\* counter instead of taking the length of the history.
AddConversationTurn_CountsUp(s, user_message, agent_response, extracted_info, ok) ==
    LET sess == get_or_create_session(conversations, repo, s)
        hist == Append(sess.conversation_history,
                       [user_message |-> user_message, agent_response |-> agent_response,
                        extracted_info |-> extracted_info])
        p == [sess.tenant_profile EXCEPT
                 !["conversation_turns"] = PyInt(sess.tenant_profile["conversation_turns"].n + 1)]
    IN  /\ conversations' =
              [conversations EXCEPT ![s] =
                  <<[sess EXCEPT !.conversation_history = hist, !.tenant_profile = p]>>]
        /\ repo' = _sync_to_persistent_storage(repo, s, p, ok)
        /\ pre' = conversations[s]
        /\ last' = Op("add_conversation_turn", s, extracted_info, user_message, <<>>,
                      agent_response, IF SyncRaises(ok) THEN "raised" ELSE "ok", "", {})
        /\ UNCHANGED <<llm_available, extraction_chain, detIn, detOut, extVars, calls, memo>>

\* add_conversation_turn as it would be if it put the new turn in front of the
\* history.
AddConversationTurn_NewestFirst(s, user_message, agent_response, extracted_info, ok) ==
    LET sess == get_or_create_session(conversations, repo, s)
        hist == <<[user_message |-> user_message, agent_response |-> agent_response,
                   extracted_info |-> extracted_info]>> \o sess.conversation_history
        p == [sess.tenant_profile EXCEPT !["conversation_turns"] = PyInt(Len(hist))]
    IN  /\ conversations' =
              [conversations EXCEPT ![s] =
                  <<[sess EXCEPT !.conversation_history = hist, !.tenant_profile = p]>>]
        /\ repo' = _sync_to_persistent_storage(repo, s, p, ok)
        /\ pre' = conversations[s]
        /\ last' = Op("add_conversation_turn", s, extracted_info, user_message, <<>>,
                      agent_response, IF SyncRaises(ok) THEN "raised" ELSE "ok", "", {})
        /\ UNCHANGED <<llm_available, extraction_chain, detIn, detOut, extVars, calls, memo>>

AddConversationTurn(s, user_message, agent_response, extracted_info, ok) ==
    LET sess == get_or_create_session(conversations, repo, s)
        hist == Append(sess.conversation_history,
                       [user_message |-> user_message, agent_response |-> agent_response,
                        extracted_info |-> extracted_info])
        p == [sess.tenant_profile EXCEPT !["conversation_turns"] = PyInt(Len(hist))]
    IN  /\ conversations' =
              [conversations EXCEPT ![s] =
                  <<[sess EXCEPT !.conversation_history = hist, !.tenant_profile = p]>>]
        /\ repo' = _sync_to_persistent_storage(repo, s, p, ok)
        /\ pre' = conversations[s]
        /\ last' = Op("add_conversation_turn", s, extracted_info, user_message, <<>>,
                      agent_response, IF SyncRaises(ok) THEN "raised" ELSE "ok", "", {})
        /\ UNCHANGED <<llm_available, extraction_chain, detIn, detOut, extVars, calls, memo>>

\* clear_session as it would be if it emptied the whole dict.
ClearSession_Everything(s) ==
    /\ conversations' = [b \in Sessions |-> <<>>]
    /\ pre' = conversations[s]
    /\ last' = Op("clear_session", s, <<>>, "", <<>>, "", "ok", "", {})
    /\ UNCHANGED <<repo, llm_available, extraction_chain, detIn, detOut, extVars, calls, memo>>

\* clear_session: the in-memory session goes; delete_tenant_profile deletes nothing.
ClearSession(s) ==
    /\ conversations' = [conversations EXCEPT ![s] = <<>>]
    /\ pre' = conversations[s]
    /\ last' = Op("clear_session", s, <<>>, "", <<>>, "", "ok", "", {})
    /\ UNCHANGED <<repo, llm_available, extraction_chain, detIn, detOut, extVars, calls, memo>>

\* get_missing_information(s): reads self.conversations, writes nothing.  The value
\* returned is kept in calls.
GetMissingInformation(s) ==
    /\ calls' = [missing |-> get_missing_information(conversations, s)]
    /\ pre' = conversations[s]
    /\ last' = Op("get_missing_information", s, <<>>, "", <<>>, "", "ok", "", {})
    /\ UNCHANGED <<conversations, repo, llm_available, extraction_chain, detIn, detOut, extVars, memo>>

\* is_profile_complete(s): len(get_missing_information(s)) == 0
IsProfileComplete(s) ==
    /\ calls' = [complete |-> Len(get_missing_information(conversations, s)) = 0]
    /\ pre' = conversations[s]
    /\ last' = Op("is_profile_complete", s, <<>>, "", <<>>, "", "ok", "", {})
    /\ UNCHANGED <<conversations, repo, llm_available, extraction_chain, detIn, detOut, extVars, memo>>

\* get_conversation_memory_info(s) for a session id: the profile lookup, then
\* get_or_create_session, then the report of the profile found or "not_found".
GetConversationMemoryInfo(s) ==
    LET profile == get_tenant_profile(conversations, repo, s)
        session == get_or_create_session(conversations, repo, s)
        convs1 == [conversations EXCEPT ![s] = <<session>>]
    IN  /\ conversations' = convs1
        /\ calls' = IF profile = <<>> THEN [status |-> "not_found"]
                    ELSE [profile_complete |-> Len(get_missing_information(convs1, s)) = 0,
                          missing_info |-> get_missing_information(convs1, s),
                          conversation_turns |-> profile[1]["conversation_turns"],
                          handoff_completed |-> session.handoff_completed]
        /\ pre' = conversations[s]
        /\ last' = Op("get_conversation_memory_info", s, <<>>, "", <<>>, "",
                      IF profile = <<>> THEN "not_found" ELSE "found", "", {})
        /\ UNCHANGED <<repo, llm_available, extraction_chain, detIn, detOut, extVars, memo>>

\* handle_message as it would be if a call without a session id were served under
\* a default session.
HandleMessage_DefaultSession(user_input, session_id, version, cfg, chainOk, llm, gen, ok) ==
    LET avail == IF llm_available = "unset" THEN cfg ELSE llm_available
        sid == IF session_id = None THEN "s1" ELSE session_id
        r == HandleAvailable(user_input, sid, version, chainOk, llm, gen, GenError, ok, ok)
    IN  /\ llm_available' = avail
        /\ pre' = IF session_id = None THEN <<>> ELSE conversations[session_id]
        /\ IF avail = "no"
           THEN /\ last' = Op("handle_message", session_id, <<>>, user_input, <<>>,
                              TestModeReply, "test_mode", "", {})
                /\ UNCHANGED <<conversations, repo, extraction_chain>>
           ELSE /\ conversations' = r.conversations
                /\ repo' = r.repo
                /\ extraction_chain' = r.extraction_chain
                /\ last' = Op("handle_message", session_id, r.extracted, user_input, gen,
                              r.reply, r.outcome, r.exc, r.notified)
        /\ UNCHANGED <<detIn, detOut, extVars, calls, memo>>

\* handle_message, lines 415-418: get_llm() configures the LLM on the first call
\* (cfg: whether that works) and caches the answer; without it the handler returns
\* the test-mode text before it looks at anything else.
HandleMessage(user_input, session_id, version, cfg, chainOk, llm, gen, ok) ==
    LET avail == IF llm_available = "unset" THEN cfg ELSE llm_available
        r == HandleAvailable(user_input, session_id, version, chainOk, llm, gen, GenError, ok, ok)
    IN  /\ llm_available' = avail
        /\ pre' = IF session_id = None THEN <<>> ELSE conversations[session_id]
        /\ IF avail = "no"
           THEN /\ last' = Op("handle_message", session_id, <<>>, user_input, <<>>,
                              TestModeReply, "test_mode", "", {})
                /\ UNCHANGED <<conversations, repo, extraction_chain>>
           ELSE /\ conversations' = r.conversations
                /\ repo' = r.repo
                /\ extraction_chain' = r.extraction_chain
                /\ last' = Op("handle_message", session_id, r.extracted, user_input, gen,
                              r.reply, r.outcome, r.exc, r.notified)
        /\ UNCHANGED <<detIn, detOut, extVars, calls, memo>>

StoreInit ==
    /\ conversations = [s \in Sessions |-> <<>>]
    /\ repo = [s \in Sessions |-> <<>>]
    /\ llm_available = "unset"
    /\ extraction_chain = "unset"
    /\ last = Op("init", None, <<>>, "", <<>>, "", "ok", "", {})
    /\ pre = <<>>
    /\ memo = Memo

DetIdle ==
    /\ detIn = [user_input |-> "", session_id |-> None]
    /\ detOut = <<>>

\* No extractor call under study, no request in flight
ExtIdle ==
    /\ extIn = <<>>
    /\ extOut = <<>>
    /\ calls = <<>>

Init == StoreInit /\ DetIdle /\ ExtIdle

SpecSessions == {"s1"}

\* The counters stay within the bounds: an operation that could raise one is taken
\* only below its bound.
Below(s, maxTurns) == TurnsOf(s).n < maxTurns

BelowHistory(s) == Len(HistoryOf(s)) < MaxHistory

Next ==
    \/ \E s \in SpecSessions : GetOrCreateSession(s)
    \/ \E s \in SpecSessions, u \in FieldMaps, ok \in SyncOutcomes :
          Below(s, MaxTurns) /\ UpdateTenantProfile(s, u, ok)
    \/ \E s \in SpecSessions, st \in StatusInputs, ad \in AdditionalData, ok \in SyncOutcomes :
          UpdateTenantStatus(s, st, ad, ok)
    \/ \E s \in SpecSessions, ok \in SyncOutcomes :
          /\ BelowHistory(s)
          /\ AddConversationTurn(s, "hello", "Hi, how can I help?", <<>>, ok)
    \/ \E s \in SpecSessions : ClearSession(s)
    \/ \E m \in Messages, s \in SpecSessions \cup {None} :
          /\ llm_available # "yes"
          /\ s # None => (Below(s, MaxTurns) /\ BelowHistory(s))
          /\ HandleMessage(m, s, "current", "no", TRUE, <<>>, <<>>, TRUE)
    \/ \E m \in Messages, s \in SpecSessions, chainOk \in ChainInputs(extraction_chain),
          llm \in LLMOutcomes, gen \in SessionReplies :
          /\ llm_available # "no"
          /\ Below(s, MaxTurns) /\ BelowHistory(s)
          /\ HandleMessage(m, s, "current", "yes", chainOk, llm, gen, TRUE)
    \/ \E m \in Messages, e \in ReplyInputs :
          /\ llm_available # "no"
          /\ HandleMessage(m, None, e.version, "yes", TRUE, <<>>, e.gen, TRUE)

Spec == Init /\ [][Next]_vars

(***************************************************************************)
(* Merges only: a session is created and field maps are merged into it,    *)
(* one field per merge or none of the required ones.                       *)
(***************************************************************************)
MaxMerges == 6

SingleFieldMaps == {f :> AllSix[f] : f \in RequiredSet}

MergeMaps ==
    SingleFieldMaps \cup {"language_preference" :> PyStr("French"), "status" :> PyStr("qualified")}

MergeNext ==
    \/ \E s \in SpecSessions : GetOrCreateSession(s)
    \/ \E s \in SpecSessions, u \in MergeMaps, ok \in SyncOutcomes :
          Below(s, MaxMerges) /\ UpdateTenantProfile(s, u, ok)

SpecMerge == Init /\ [][MergeNext]_vars

(***************************************************************************)
(* The store with a tenants table that may refuse a write.                 *)
(***************************************************************************)
SaveOutcomes == BOOLEAN

StoreMaps == {"age" :> PyInt(25), "language_preference" :> PyStr("French")}

SyncNext ==
    \/ \E s \in SpecSessions : GetOrCreateSession(s)
    \/ \E s \in SpecSessions, u \in StoreMaps, ok \in SaveOutcomes :
          Below(s, MaxTurns) /\ UpdateTenantProfile(s, u, ok)
    \/ \E s \in SpecSessions, ok \in SaveOutcomes :
          /\ BelowHistory(s)
          /\ AddConversationTurn(s, "hello", "Hi, how can I help?", <<>>, ok)
    \/ \E s \in SpecSessions : ClearSession(s)

SpecSync == Init /\ [][SyncNext]_vars

(***************************************************************************)
(* Two sessions side by side.                                              *)
(***************************************************************************)
TwoNext ==
    \/ \E s \in Sessions : GetOrCreateSession(s)
    \/ \E s \in Sessions :
          Below(s, MaxTurns) /\ UpdateTenantProfile(s, "age" :> PyInt(25), TRUE)
    \/ \E s \in Sessions :
          /\ BelowHistory(s)
          /\ AddConversationTurn(s, "hello", "Hi, how can I help?", <<>>, TRUE)
    \/ \E s \in Sessions : ClearSession(s)
    \/ \E s \in Sessions :
          /\ Below(s, MaxTurns) /\ BelowHistory(s)
          /\ HandleMessage("hello", s, "current", "yes", TRUE, <<>>, <<PlainResponse>>, TRUE)

SpecTwo == Init /\ [][TwoNext]_vars

(***************************************************************************)
(* One session whose history grows by several turns, with merges, status   *)
(* changes and handle_message calls in between.                            *)
(***************************************************************************)
MaxAppends == 2

HistoryMessages == {"hello", "I am 25 years old"}

HistoryNext ==
    \/ \E s \in SpecSessions : GetOrCreateSession(s)
    \/ \E s \in SpecSessions :
          Below(s, MaxTurns) /\ UpdateTenantProfile(s, "age" :> PyInt(25), TRUE)
    \/ \E s \in SpecSessions : UpdateTenantStatus(s, "active_tenant", <<>>, TRUE)
    \/ \E s \in SpecSessions, m \in HistoryMessages :
          /\ Len(HistoryOf(s)) < MaxAppends
          /\ AddConversationTurn(s, m, "Hi, how can I help?", <<>>, TRUE)
    \/ \E s \in SpecSessions : ClearSession(s)
    \/ \E s \in SpecSessions :
          /\ Below(s, MaxTurns)
          /\ HandleMessage("hello", s, "current", "yes", TRUE, <<>>, <<PlainResponse>>, TRUE)

SpecHistory == Init /\ [][HistoryNext]_vars

(***************************************************************************)
(* The queries on a session (missing information, completeness, memory     *)
(* info) between merges that fill and empty required fields.               *)
(***************************************************************************)
QueryMaps ==
    {"age" :> PyInt(25), "occupation" :> PyStr("engineer"), OtherFive,
     "age" :> PyNone, "sex" :> PyStr("")}

QueryNext ==
    \/ \E s \in SpecSessions : GetOrCreateSession(s)
    \/ \E s \in SpecSessions, u \in QueryMaps :
          Below(s, MaxTurns) /\ UpdateTenantProfile(s, u, TRUE)
    \/ \E s \in SpecSessions : ClearSession(s)
    \/ \E s \in SpecSessions : GetMissingInformation(s)
    \/ \E s \in SpecSessions : IsProfileComplete(s)
    \/ \E s \in SpecSessions : GetConversationMemoryInfo(s)

SpecQuery == Init /\ [][QueryNext]_vars

(***************************************************************************)
(* Status changes with arguments of any kind: valid and invalid status     *)
(* strings through update_tenant_status, and a field map naming status.    *)
(***************************************************************************)
StatusArguments == {"active_tenant", "rejected", "vip"}

StatusMaps == {"age" :> PyInt(25), OtherFive, "status" :> PyStr("gold")}

StatusNext ==
    \/ \E s \in SpecSessions : GetOrCreateSession(s)
    \/ \E s \in SpecSessions, u \in StatusMaps :
          Below(s, MaxTurns) /\ UpdateTenantProfile(s, u, TRUE)
    \/ \E s \in SpecSessions, st \in StatusArguments : UpdateTenantStatus(s, st, <<>>, TRUE)
    \/ \E s \in SpecSessions : ClearSession(s)

SpecStatus == Init /\ [][StatusNext]_vars

(***************************************************************************)
(* handle_message calls without a session id (the generic webhook,         *)
(* main.py:415) next to a session that has a profile and a history.        *)
(***************************************************************************)
NoSessionNext ==
    \/ \E s \in SpecSessions : GetOrCreateSession(s)
    \/ \E s \in SpecSessions :
          Below(s, MaxTurns) /\ UpdateTenantProfile(s, "age" :> PyInt(25), TRUE)
    \/ \E s \in SpecSessions :
          /\ BelowHistory(s)
          /\ AddConversationTurn(s, "hello", "Hi, how can I help?", <<>>, TRUE)
    \/ \E m \in Messages, chainOk \in ChainInputs(extraction_chain), llm \in LLMOutcomes,
          gen \in GenOutcomes :
          HandleMessage(m, None, "current", "yes", chainOk, llm, gen, TRUE)

SpecNoSession == Init /\ [][NoSessionNext]_vars

(***************************************************************************)
(* Requests in flight.  The server receives chat requests at any time; each *)
(* is served by the coroutine chat_endpoint (main.py), which calls        *)
(* handle_message as a plain function.  handle_message is taken apart into *)
(* its steps on the session: the flag check (lines 415-425), the           *)
(* extraction (428), the merge (440-445) and the rest (451-586).           *)
(***************************************************************************)
CallIds == {1, 2}

RequestMessages == {"hello", "I am 25 years old"}

IdleCall == [pc |-> "idle", user_input |-> "", session_id |-> None, extracted |-> <<>>,
             reply |-> ""]

\* The positions of a call between its first and its last step on the session
Running == {"checked", "extracted", "merged"}

\* The event loop as it would be if each request were served on a thread of its own.
EventLoopFree_Threaded(c) == TRUE

\* chat_endpoint is a coroutine on the server's one event loop and calls
\* handle_message without awaiting anything; handle_message is a plain def with no
\* await in it.  The loop takes up a request only when no handler is running.
EventLoopFree(c) == \A d \in CallIds \ {c} : calls[d].pc \notin Running

\* A request for a session arrives.
Receive(c, m, s) ==
    /\ calls[c].pc = "idle"
    /\ calls' = [calls EXCEPT ![c] = [IdleCall EXCEPT !.pc = "pending", !.user_input = m,
                                                      !.session_id = s]]
    /\ UNCHANGED <<storeVars, detVars, extVars, memo>>

\* lines 415-425: get_llm(), then the handoff-flag check on the session.
BeginCall(c) ==
    LET s == calls[c].session_id
        sess == get_or_create_session(conversations, repo, s)
    IN  /\ calls[c].pc = "pending"
        /\ EventLoopFree(c)
        /\ Below(s, MaxTurns)
        /\ llm_available' = "yes"
        /\ conversations' = [conversations EXCEPT ![s] = <<sess>>]
        /\ calls' = [calls EXCEPT ![c] =
                        IF sess.handoff_completed
                        THEN [@ EXCEPT !.pc = "done", !.reply = ClosingReply]
                        ELSE [@ EXCEPT !.pc = "checked"]]
        /\ UNCHANGED <<repo, extraction_chain, last, pre, detVars, extVars, memo>>

\* line 428: the extraction; the LLM request raises or returns a result.
ExtractCall(c, chainOk, llm) ==
    LET chain == IF extraction_chain = "unset" /\ chainOk THEN "ready" ELSE extraction_chain
    IN  /\ calls[c].pc = "checked"
        /\ extraction_chain' = chain
        /\ calls' = [calls EXCEPT ![c] =
                        [@ EXCEPT !.pc = "extracted",
                                  !.extracted = extract_tenant_info_llm(calls[c].user_input, chain, llm)]]
        /\ UNCHANGED <<conversations, repo, llm_available, last, pre, detVars, extVars, memo>>

\* lines 440-445: the merge of a non-empty extraction.
MergeCall(c, ok) ==
    LET s == calls[c].session_id
        sess == get_or_create_session(conversations, repo, s)
        extracted == calls[c].extracted
        res == IF extracted = <<>> THEN [profile |-> sess.tenant_profile, raised |-> FALSE]
               ELSE update_tenant_profile(sess.tenant_profile, extracted)
    IN  /\ calls[c].pc = "extracted"
        /\ conversations' = [conversations EXCEPT ![s] = <<[sess EXCEPT !.tenant_profile = res.profile]>>]
        /\ repo' = IF extracted = <<>> \/ res.raised THEN repo
                   ELSE _sync_to_persistent_storage(repo, s, res.profile, ok)
        /\ calls' = [calls EXCEPT ![c] =
                        IF res.raised
                        THEN [@ EXCEPT !.pc = "done",
                                       !.reply = ErrorReply(TurnsTypeError(res.profile["conversation_turns"]))]
                        ELSE [@ EXCEPT !.pc = "merged"]]
        /\ UNCHANGED <<llm_available, extraction_chain, last, pre, detVars, extVars, memo>>

\* lines 451-586: the missing-information call, and what follows it if it returns.
FinishCall(c, gen) ==
    LET s == calls[c].session_id
        r == ReplyAndHandoff(conversations, repo, extraction_chain, calls[c].user_input, s,
                             calls[c].extracted, {}, "current", gen, GenError, TRUE)
    IN  /\ calls[c].pc = "merged"
        /\ IF KeywordRejected("min_threshold", get_missing_information_params)
           THEN /\ calls' = [calls EXCEPT ![c] = [@ EXCEPT !.pc = "done",
                                                           !.reply = ErrorReply(MinThresholdError)]]
                /\ UNCHANGED <<conversations, repo>>
           ELSE /\ calls' = [calls EXCEPT ![c] = [@ EXCEPT !.pc = "done", !.reply = r.reply]]
                /\ conversations' = r.conversations
                /\ repo' = r.repo
        /\ UNCHANGED <<llm_available, extraction_chain, last, pre, detVars, extVars, memo>>

\* The reply goes out.
Respond(c) ==
    /\ calls[c].pc = "done"
    /\ calls' = [calls EXCEPT ![c] = IdleCall]
    /\ UNCHANGED <<storeVars, detVars, extVars, memo>>

RequestsInit ==
    /\ memo = Memo
    /\ conversations = [s \in Sessions |-> <<>>]
    /\ repo = [s \in Sessions |-> <<>>]
    /\ llm_available = "unset"
    /\ extraction_chain = "unset"
    /\ last = Op("init", None, <<>>, "", <<>>, "", "ok", "", {})
    /\ pre = <<>>
    /\ DetIdle
    /\ extIn = <<>>
    /\ extOut = <<>>
    /\ calls = [c \in CallIds |-> IdleCall]

RequestsNext ==
    \/ \E c \in CallIds, m \in RequestMessages, s \in SpecSessions : Receive(c, m, s)
    \/ \E c \in CallIds : BeginCall(c)
    \/ \E c \in CallIds, chainOk \in ChainInputs(extraction_chain) :
          ExtractCall(c, chainOk, <<>>)
    \/ \E c \in CallIds : MergeCall(c, TRUE)
    \/ \E c \in CallIds : FinishCall(c, <<PlainResponse>>)
    \/ \E c \in CallIds : Respond(c)

SpecRequests == RequestsInit /\ [][RequestsNext]_vars

(***************************************************************************)
(* One handle_message call taken apart into the steps of its body, in the  *)
(* order of the statements: get_llm and the flag check (415-425), the      *)
(* extraction (428), the notification and the conversation-memory update   *)
(* (430-453), the reply (455-495), the detector (503), the decision and    *)
(* the return (507-576).  The call keeps a log of the collaborators it has *)
(* invoked.                                                                *)
(***************************************************************************)
IdleStep == [pc |-> "idle", user_input |-> "", session_id |-> None, extracted |-> <<>>,
             response |-> "", triggered |-> FALSE, reply |-> "", trace |-> <<>>,
             request |-> <<>>]

StepMessages == {"hello", "I am 25 years old", "sorry, can I speak to someone"}

StepReplies == {<<>>, <<PlainResponse>>, <<HandoffResponse>>}

\* The detector as it would be if it were called ahead of the reply capability.
DetectorDue_BeforeReply(pc) == pc = "updated"

\* detect_handoff_triggers is called at line 503, after chain.predict (489) and
\* extract_json_from_response (493) have returned.
DetectorDue(pc) == pc = "replied"

\* lines 415-425, LLM available: the flag check on the session.
StepBegin(m, s) ==
    LET convs1 == IF s = None THEN conversations
                  ELSE [conversations EXCEPT ![s] = <<get_or_create_session(conversations, repo, s)>>]
    IN  /\ calls.pc = "idle"
        /\ s # None => Below(s, MaxTurns)
        /\ llm_available' = "yes"
        /\ conversations' = convs1
        /\ calls' = IF s # None /\ convs1[s][1].handoff_completed
                    THEN [IdleStep EXCEPT !.pc = "done", !.user_input = m, !.session_id = s,
                                          !.reply = ClosingReply]
                    ELSE [IdleStep EXCEPT !.pc = "started", !.user_input = m, !.session_id = s]
        /\ UNCHANGED <<repo, extraction_chain, last, pre, detVars, extVars, memo>>

\* line 428: extract_tenant_info_llm; with a chain it sends the request (lines
\* 199-205), without one it returns the rule-based extraction (lines 150-152).
StepExtract(chainOk, llm) ==
    LET chain == IF extraction_chain = "unset" /\ chainOk THEN "ready" ELSE extraction_chain
    IN  /\ calls.pc = "started"
        /\ extraction_chain' = chain
        /\ calls' = [calls EXCEPT !.pc = "extracted",
                                  !.extracted = extract_tenant_info_llm(calls.user_input, chain, llm),
                                  !.request =
                                      IF chain # "ready" THEN <<>>
                                      ELSE <<ExtractionRequest(conversations, repo,
                                                               calls.session_id)>>,
                                  !.trace = Append(@, "extraction")]
        /\ UNCHANGED <<conversations, repo, llm_available, last, pre, detVars, extVars, memo>>

\* lines 430-453: for a session, the merge of a non-empty extraction (445) and the
\* missing-information call (451); nothing without a session.
StepUpdate(ok) ==
    LET s == calls.session_id
        sess == get_or_create_session(conversations, repo, s)
        extracted == calls.extracted
        res == IF extracted = <<>> THEN [profile |-> sess.tenant_profile, raised |-> FALSE]
               ELSE update_tenant_profile(sess.tenant_profile, extracted)
        trace == IF extracted = <<>> THEN calls.trace ELSE Append(calls.trace, "merge")
    IN  /\ calls.pc = "extracted"
        /\ IF s = None
           THEN /\ calls' = [calls EXCEPT !.pc = "updated"]
                /\ UNCHANGED <<conversations, repo>>
           ELSE /\ conversations' =
                      [conversations EXCEPT ![s] = <<[sess EXCEPT !.tenant_profile = res.profile]>>]
                /\ repo' = IF extracted = <<>> \/ res.raised THEN repo
                           ELSE _sync_to_persistent_storage(repo, s, res.profile, ok)
                /\ calls' =
                      IF res.raised
                      THEN [calls EXCEPT !.pc = "done", !.trace = trace,
                               !.reply = ErrorReply(TurnsTypeError(res.profile["conversation_turns"]))]
                      ELSE IF KeywordRejected("min_threshold", get_missing_information_params)
                      THEN [calls EXCEPT !.pc = "done", !.trace = trace,
                                         !.reply = ErrorReply(MinThresholdError)]
                      ELSE [calls EXCEPT !.pc = "updated", !.trace = trace]
        /\ UNCHANGED <<llm_available, extraction_chain, last, pre, detVars, extVars, memo>>

\* lines 455-495: the prompt, chain.predict and the JSON of the response.
StepReply(gen) ==
    /\ calls.pc = "updated"
    /\ calls' = IF gen = <<>>
                THEN [calls EXCEPT !.pc = "done", !.reply = ErrorReply(GenError),
                                   !.trace = Append(@, "reply_generation")]
                ELSE [calls EXCEPT !.pc = "replied", !.response = gen[1],
                                   !.trace = Append(@, "reply_generation")]
    /\ UNCHANGED <<storeVars, detVars, extVars, memo>>

\* line 503: detect_handoff_triggers
StepDetect ==
    LET s == calls.session_id
        profile == IF s = None THEN <<>> ELSE get_tenant_profile(conversations, repo, s)
    IN  /\ DetectorDue(calls.pc)
        /\ calls' = [calls EXCEPT !.pc = "detected",
                                  !.triggered = Detect(calls.user_input, s, profile).handoff_triggered,
                                  !.trace = Append(@, "detector")]
        /\ UNCHANGED <<storeVars, detVars, extVars, memo>>

\* lines 507-576: the handoff decision, the handoff or the turn append, the return.
StepDecide ==
    LET r == ReplyAndHandoff(conversations, repo, extraction_chain, calls.user_input,
                             calls.session_id, calls.extracted, {}, "current",
                             <<calls.response>>, GenError, TRUE)
    IN  /\ calls.pc = "detected"
        /\ calls.response # ""
        /\ calls' = [calls EXCEPT !.pc = "done", !.reply = r.reply]
        /\ conversations' = r.conversations
        /\ repo' = r.repo
        /\ UNCHANGED <<llm_available, extraction_chain, last, pre, detVars, extVars, memo>>

\* handle_message has returned.
StepReturn ==
    /\ calls.pc = "done"
    /\ calls' = IdleStep
    /\ UNCHANGED <<storeVars, detVars, extVars, memo>>

StepsInit ==
    /\ memo = Memo
    /\ conversations = [s \in Sessions |-> <<>>]
    /\ repo = [s \in Sessions |-> <<>>]
    /\ llm_available = "unset"
    /\ extraction_chain = "unset"
    /\ last = Op("init", None, <<>>, "", <<>>, "", "ok", "", {})
    /\ pre = <<>>
    /\ DetIdle
    /\ extIn = <<>>
    /\ extOut = <<>>
    /\ calls = IdleStep

StepsNext ==
    \/ \E m \in StepMessages, s \in SpecSessions \cup {None} : StepBegin(m, s)
    \/ \E chainOk \in ChainInputs(extraction_chain), llm \in LLMOutcomes :
          StepExtract(chainOk, llm)
    \/ StepUpdate(TRUE)
    \/ \E gen \in StepReplies : StepReply(gen)
    \/ StepDetect
    \/ StepDecide
    \/ StepReturn

SpecSteps == StepsInit /\ [][StepsNext]_vars

(***************************************************************************)
(* The detector on its own: a message arrives for no session, for a        *)
(* session without a profile, or for a session whose profile records some  *)
(* language preference; the one step is the call.                          *)
(***************************************************************************)
LanguageOptions == {PyNone, PyStr(""), PyStr("French"), PyStr("English")}

DetectorSession == "s1"

\* What else the profile holds: nothing, or the six required fields.
ProfileFillings == {TenantProfile, MergeFields(TenantProfile, AllSix)}

DetectorProfiles ==
    {[p EXCEPT !["language_preference"] = l] : p \in ProfileFillings, l \in LanguageOptions}

DetInit ==
    /\ \E o \in {<<>>} \cup {<<NewSession(p)>> : p \in DetectorProfiles} :
          conversations = [s \in Sessions |-> IF s = DetectorSession THEN o ELSE <<>>]
    /\ repo = [s \in Sessions |-> <<>>]
    /\ llm_available = "unset"
    /\ extraction_chain = "unset"
    /\ last = Op("init", None, <<>>, "", <<>>, "", "ok", "", {})
    /\ pre = <<>>
    /\ memo = <<>>
    /\ \E m \in DetectorMessages, s \in {None, DetectorSession} :
          detIn = [user_input |-> m, session_id |-> s]
    /\ detOut = <<>>
    /\ ExtIdle

DetectHandoffTriggers ==
    /\ detOut = <<>>
    /\ detOut' = <<detect_handoff_triggers(detIn.user_input, detIn.session_id,
                       IF detIn.session_id = None THEN <<>>
                       ELSE get_tenant_profile(conversations, repo, detIn.session_id))>>
    /\ UNCHANGED <<storeVars, detIn, extVars, calls, memo>>

DetNext == DetectHandoffTriggers

SpecDetect == DetInit /\ [][DetNext]_vars

(***************************************************************************)
(* The LLM-structured extractor on its own: one call, for a message, with  *)
(* the agent's globals in any state they can be in and the LLM capability  *)
(* doing any of the things it can do.                                      *)
(***************************************************************************)
\* What chain.invoke does in the call: it raises (<<>>; a reply that fails schema
\* validation raises in the parser) or returns a TenantInfo.
ExtractorOutcomes ==
    LLMOutcomes \cup
    { <<[fields |-> "age" :> Field(PyStr("twenty"), 90) @@ "occupation" :> Field(PyStr("nurse"), 70),
         language_preference |-> PyNone]>>,
      <<[fields |-> "age" :> Field(PyStr(" "), 90) @@ "sex" :> Field(PyNone, 95)
                    @@ "occupation" :> Field(PyStr("nurse"), 69),
         language_preference |-> PyStr("")]>>,
      <<[fields |-> "language_preference" :> Field(PyStr("French"), 50),
         language_preference |-> PyStr("French")]>> }

\* The globals llm_available and extraction_chain: a chain exists only with an LLM.
AgentGlobals ==
    { [llm_available |-> "unset", extraction_chain |-> "unset"],
      [llm_available |-> "no", extraction_chain |-> "unset"],
      [llm_available |-> "yes", extraction_chain |-> "unset"],
      [llm_available |-> "yes", extraction_chain |-> "ready"] }

ExtInit ==
    /\ memo = Memo
    /\ repo = [s \in Sessions |-> <<>>]
    /\ last = Op("init", None, <<>>, "", <<>>, "", "ok", "", {})
    /\ pre = <<>>
    /\ DetIdle
    /\ extOut = <<>>
    /\ calls = <<>>
    /\ \E o \in {<<>>, <<NewSession(TenantProfile)>>} :
          conversations = [s \in Sessions |-> IF s = DetectorSession THEN o ELSE <<>>]
    /\ \E g \in AgentGlobals :
          /\ llm_available = g.llm_available
          /\ extraction_chain = g.extraction_chain
    /\ \E m \in Messages, s \in {None, DetectorSession}, cfg \in {"yes", "no"},
          chainOk \in BOOLEAN, llm \in ExtractorOutcomes :
          extIn = [user_input |-> m, session_id |-> s, cfg |-> cfg, chainOk |-> chainOk,
                   llm |-> llm]

\* extract_tenant_info_llm(user_input, session_id): get_extraction_chain() returns the
\* cached chain or builds one, which takes an LLM (get_llm, configured on first use:
\* cfg) and a chain construction that works (chainOk).
ExtractTenantInfoLLM ==
    LET avail == IF llm_available = "unset" THEN extIn.cfg ELSE llm_available
        chain == IF extraction_chain = "unset" /\ avail = "yes" /\ extIn.chainOk
                 THEN "ready" ELSE extraction_chain
    IN  /\ extOut = <<>>
        /\ extIn # <<>>
        /\ llm_available' = (IF extraction_chain = "unset" THEN avail ELSE llm_available)
        /\ extraction_chain' = chain
        /\ extOut' = <<extract_tenant_info_llm(extIn.user_input, chain, extIn.llm)>>
        /\ UNCHANGED <<conversations, repo, last, pre, detVars, extIn, calls, memo>>

ExtNext == ExtractTenantInfoLLM

SpecExtract == ExtInit /\ [][ExtNext]_vars

(***************************************************************************)
(* The rule-based extractor on messages about a guarantor: the one step is *)
(* the call extract_tenant_info(message).                                  *)
(***************************************************************************)
GuarantorOpeners == {"", "I have ", "sorry, "}

GuarantorPhrases ==
    {"guarantor", "garant", "have a guarantor", "ai un garant",
     "no guarantor", "no guarantors", "pas de garant", "pas de garants",
     "need guarantor", "need guarantors", "besoin d'un garant", "besoin d'un garants",
     "garantie visale", "visale guarantee", "guarantee", "a flat"}

GuarantorClosers == {"", ".", " please"}

GuarantorMessages ==
    {o \o p \o c : o \in GuarantorOpeners, p \in GuarantorPhrases, c \in GuarantorClosers}

GuarantorInit ==
    /\ memo = <<>>
    /\ conversations = [s \in Sessions |-> <<>>]
    /\ repo = [s \in Sessions |-> <<>>]
    /\ llm_available = "unset"
    /\ extraction_chain = "unset"
    /\ last = Op("init", None, <<>>, "", <<>>, "", "ok", "", {})
    /\ pre = <<>>
    /\ DetIdle
    /\ calls = <<>>
    /\ extOut = <<>>
    /\ \E m \in GuarantorMessages : extIn = [user_input |-> m]

\* extract_tenant_info(message)
ExtractTenantInfo ==
    /\ extOut = <<>>
    /\ extOut' = <<extract_tenant_info(extIn.user_input)>>
    /\ UNCHANGED <<storeVars, detVars, extIn, calls, memo>>

GuarantorNext == ExtractTenantInfo

SpecGuarantor == GuarantorInit /\ [][GuarantorNext]_vars

(***************************************************************************)
(* The profile store's contract.  last is the operation that produced the  *)
(* state and pre the session it found.                                     *)
(***************************************************************************)
Merged == last.op = "update_tenant_profile" /\ last.outcome = "ok"

\* The session after the operation, and its profile
Session == conversations[last.sid][1]
After == Session.tenant_profile

\* The profile of the in-memory session the operation found
Before == pre[1].tenant_profile

\* The tenant data a profile holds
DataFields ==
    {"age", "sex", "occupation", "move_in_date", "rental_duration", "guarantor_status",
     "guarantor_details", "viewing_interest", "availability", "language_preference",
     "property_interest"}

OptionalFields == DataFields \ RequiredSet

NonEmpty(v) == v # PyNone /\ v # PyStr("")

Complete(p) == \A f \in RequiredSet : NonEmpty(p[f])

StatusOf(p) == p["status"].s

\* C1: a profile field that held a non-empty value before a merge still holds a
\* non-empty value after it.
C1_MergeMonotonicity ==
    (Merged /\ pre # <<>>) =>
        \A f \in DataFields : NonEmpty(Before[f]) => NonEmpty(After[f])

\* C3, under SpecMerge (a fresh session, then merges only): a merge that leaves one
\* of the six required fields empty leaves the status 'prospect', and the merge after
\* which all six are non-empty makes it 'qualified'.
C3_QualificationTransition ==
    Merged =>
        LET before == IF pre = <<>> THEN TenantProfile ELSE Before
        IN  StatusOf(before) = "prospect" =>
                StatusOf(After) = (IF Complete(After) THEN "qualified" ELSE "prospect")

\* C4: in every reachable state, a merge whose field map names optional fields only
\* (none of the six required ones) never changes the status from 'prospect' to
\* 'qualified'.
C4_OptionalMergeKeepsProspect ==
    (Merged /\ pre # <<>> /\ DOMAIN last.updates # {}
        /\ DOMAIN last.updates \subseteq OptionalFields /\ StatusOf(Before) = "prospect")
    => StatusOf(After) # "qualified"

(***************************************************************************)
(* The orchestrator's contract.                                            *)
(***************************************************************************)
\* A handle_message call for a session, with the LLM available, that did not find
\* the session handed off
Handled ==
    /\ last.op = "handle_message"
    /\ last.sid # None
    /\ last.outcome # "test_mode"
    /\ pre # <<>> => ~pre[1].handoff_completed

PreHistory == IF pre = <<>> THEN <<>> ELSE pre[1].conversation_history

\* The detector's verdict on the call's message, as handle_message asks for it
Triggered ==
    Detect(last.user_input, last.sid, get_tenant_profile(conversations, repo, last.sid))
        .handoff_triggered

\* The reply capability answered, and its answer carries no handoff flag
PlainReply == last.gen # <<>> /\ Parsed(last.gen[1]) = <<>>

\* No session is ever marked handed off: the only assignment of the flag is behind
\* the call that raises in every handle_message for a session.
HandoffNeverCompleted ==
    \A s \in Sessions : conversations[s] # <<>> => ~conversations[s][1].handoff_completed

\* C5: a handle_message call for a session that is not handed off, with the LLM
\* available and no handoff trigger, does not enter the error path, appends exactly
\* one turn (the message, the reply, the extracted fields) and returns the reply.
C5_NormalTurn ==
    (Handled /\ ~Triggered /\ PlainReply) =>
        /\ last.outcome = "normal"
        /\ last.reply = last.gen[1]
        /\ Session.conversation_history =
              Append(PreHistory, [user_message |-> last.user_input,
                                  agent_response |-> last.gen[1],
                                  extracted_info |-> last.updates])

\* C6: when the detector reports triggered for the message of a handle_message call
\* on a session that is not handed off, the call marks the session handoff_completed,
\* invokes the handoff notifier and appends no turn.
C6_HandoffFinalization ==
    (Handled /\ Triggered /\ last.gen # <<>>) =>
        /\ Session.handoff_completed
        /\ "handoff" \in last.notified
        /\ Session.conversation_history = PreHistory

\* C7: a handle_message call that ends in the exception path leaves the session as
\* it was before the call: profile, status, turns, history and handoff flag.
C7_FailureAtomicity ==
    (last.op = "handle_message" /\ last.outcome = "error" /\ last.sid # None /\ pre # <<>>)
    => conversations[last.sid] = pre

\* The apology handle_message opens its failure reply with
Apology == "I'm having trouble processing your request right now."

\* C8: the reply returned on a failure is the fixed apology, and the text of the
\* exception does not appear in it.
C8_FixedErrorReply ==
    (last.op = "handle_message" /\ last.outcome = "error") =>
        /\ last.reply = Apology
        /\ ~Contains(last.reply, last.exc)

(***************************************************************************)
(* The handoff trigger detector's contract, under SpecDetect.              *)
(***************************************************************************)
DetMessage == Lower(detIn.user_input)

DetProfile ==
    IF detIn.session_id = None THEN <<>>
    ELSE get_tenant_profile(conversations, repo, detIn.session_id)

\* The greeting allow-list: the message is one of these words, whatever its case
\* and the blanks around it.
BareGreetings == {"hello", "hi", "bonjour", "salut"}

IsBareGreeting(m) == Lower(Strip(m)) \in BareGreetings

\* C9: for a message that is a bare greeting from the allow-list, and for every
\* profile (none, or one with or without a language preference), the detector
\* returns handoff_triggered = false.
C9_GreetingExclusion ==
    (detOut # <<>> /\ IsBareGreeting(detIn.user_input)) => ~detOut[1].handoff_triggered

\* A bare greeting was judged for a session whose profile records a language
\* preference, the case in which the language-barrier rule runs.
C9_Witness ==
    /\ detOut # <<>>
    /\ IsBareGreeting(detIn.user_input)
    /\ LanguageBarrierApplies(detIn.session_id, DetProfile)
    /\ ~detOut[1].handoff_triggered

\* The message contains an explicit human-request phrase and fewer than two
\* emotional keywords.
ManualCase ==
    /\ detOut # <<>>
    /\ ManualHits(DetMessage) # {}
    /\ EmotionalCount(DetMessage) < 2

NamesMatchedPhrase(reason) ==
    \E i \in ManualHits(DetMessage) : Contains(reason, manual_trigger_keywords[i])

\* C10 as stated: for a message with an explicit human-request phrase and fewer
\* than two emotional keywords, and for every profile, the detector returns
\* handoff_triggered = true, escalation_priority = "medium" and a reason that
\* names the matched phrase.
C10_ManualTrigger_AsStated ==
    ManualCase =>
        /\ detOut[1].handoff_triggered
        /\ detOut[1].escalation_priority = "medium"
        /\ NamesMatchedPhrase(detOut[1].handoff_reason)

\* The language-barrier rule ran on the message: the session's profile records a
\* language preference and the message contains a communication-difficulty word.
BarrierCase ==
    /\ LanguageBarrierApplies(detIn.session_id, DetProfile)
    /\ \E i \in DOMAIN communication_difficulty_keywords :
          Contains(DetMessage, communication_difficulty_keywords[i])

\* C10, amended: in the same case the detector returns handoff_triggered = true and
\* escalation_priority = "medium"; the reason names the matched phrase unless the
\* language-barrier rule also ran on the message, and then the reason is
\* "Potential language barrier".
C10_ManualTrigger ==
    ManualCase =>
        /\ detOut[1].handoff_triggered
        /\ detOut[1].escalation_priority = "medium"
        /\ IF BarrierCase
           THEN detOut[1].handoff_reason = "Potential language barrier"
           ELSE NamesMatchedPhrase(detOut[1].handoff_reason)

\* A human-request message on which the language-barrier rule ran as well.
C10_Witness ==
    /\ ManualCase
    /\ BarrierCase
    /\ detOut[1].handoff_triggered
    /\ detOut[1].handoff_reason = "Potential language barrier"

\* The message matches two or more keywords of the emotional/urgency list.
EmotionalCase == detOut # <<>> /\ EmotionalCount(DetMessage) >= 2

\* C11: for a message that matches two or more emotional keywords, and for every
\* profile and whatever other rules match, the detector returns handoff_triggered =
\* true with escalation_priority = "high".
C11_EmotionalTrigger ==
    EmotionalCase =>
        /\ detOut[1].handoff_triggered
        /\ detOut[1].escalation_priority = "high"

\* The profiles that agree with p on language_preference
SameLanguage(p) == {q \in DetectorProfiles : q["language_preference"] = p["language_preference"]}

\* C12: for one message, the detector returns the same result for any two profiles
\* that agree on language_preference, whatever required fields either holds; and on
\* an empty profile it returns what it returns for the message without a session.
C12_NoTriggerFromAbsence ==
    (detOut # <<>> /\ DetProfile # <<>>) =>
        /\ \A q \in SameLanguage(DetProfile[1]) :
              detect_handoff_triggers(detIn.user_input, detIn.session_id, <<q>>) = detOut[1]
        /\ DetProfile[1] = TenantProfile =>
              detOut[1] = detect_handoff_triggers(detIn.user_input, None, <<>>)

\* The detector judged a message that triggers nothing for a session whose profile
\* is empty, and did not trigger.
C12_Witness ==
    /\ detOut # <<>>
    /\ DetProfile = <<TenantProfile>>
    /\ ~detOut[1].handoff_triggered

(***************************************************************************)
(* The LLM-structured extractor's contract, under SpecExtract.             *)
(***************************************************************************)
Extracted == extOut # <<>>

\* The call had no chain to ask, or the request raised.
ExtractionFailed == Extracted /\ (extraction_chain # "ready" \/ extIn.llm = <<>>)

\* The call got a TenantInfo back from the chain.
ExtractionSucceeded == Extracted /\ extraction_chain = "ready" /\ extIn.llm # <<>>

\* C13: when the extraction chain is unavailable or the LLM request raises, the
\* extractor returns exactly the rule-based extraction of the same message, a map
\* from field names to values.
C13_ExtractorFallback ==
    ExtractionFailed =>
        /\ extOut[1] = RuleBased(extIn.user_input)
        /\ \A f \in DOMAIN extOut[1] : extOut[1][f].t \in {"str", "int", "bool"}

\* The chain could not be built for the call and the rule-based result came back.
C13_Witness ==
    /\ ExtractionFailed
    /\ extraction_chain = "unset"
    /\ extOut[1] = RuleBased(extIn.user_input)
    /\ extOut[1] # <<>>

\* What the LLM reported for the call, and the call's result
Reported == extIn.llm[1].fields
Holistic == extIn.llm[1].language_preference
ResultMap == extOut[1]

\* The LLM reported field f with confidence >= 0.70 and a non-blank value.
Accepted(f) ==
    /\ f \in DOMAIN Reported
    /\ Reported[f].confidence >= ConfidenceThreshold
    /\ Reported[f].value.t = "str"
    /\ Strip(Reported[f].value.s) # ""

C15_AgeIsInteger ==
    ExtractionSucceeded =>
        ("age" \in DOMAIN ResultMap => ResultMap["age"].t = "int")

(***************************************************************************)
(* The profile store's contract, continued.                                *)
(***************************************************************************)
\* C17: after clear_session(s) a status query for s (get_conversation_memory_info,
\* which asks get_tenant_profile) finds no profile, and the next get_or_create_session(s)
\* yields a fresh empty profile.
C17_ClearSessionRemovesAll ==
    last.op = "clear_session" =>
        /\ get_tenant_profile(conversations, repo, last.sid) = <<>>
        /\ get_or_create_session(conversations, repo, last.sid) = NewSession(TenantProfile)

\* The operations C20 speaks of
CountedOps ==
    {"get_or_create_session", "update_tenant_profile", "add_conversation_turn",
     "handle_message"}

\* C20: an operation on a session that is in memory leaves its conversation_turns
\* counter at or above the value the operation found.
C20_TurnsMonotonic ==
    (last.op \in CountedOps /\ last.sid # None /\ pre # <<>> /\ conversations[last.sid] # <<>>)
    => After["conversation_turns"].n >= Before["conversation_turns"].n

\* The session the operation worked on before it changed it: the one in memory, or
\* the one get_or_create_session made for it.
Found ==
    IF pre # <<>> THEN pre[1]
    ELSE get_or_create_session([conversations EXCEPT ![last.sid] = <<>>], repo, last.sid)

\* A merge or an append whose save did not reach the tenants table: the row is not
\* the profile the operation left in memory.
SaveFailed ==
    /\ last.op \in {"update_tenant_profile", "add_conversation_turn"}
    /\ repo[last.sid] # <<After>>

\* The in-memory session the operation leaves when the save works
AsIfSaved ==
    IF last.op = "update_tenant_profile"
    THEN [Found EXCEPT !.tenant_profile =
             update_tenant_profile(Found.tenant_profile, last.updates).profile]
    ELSE LET hist == Append(Found.conversation_history,
                            [user_message |-> last.user_input, agent_response |-> last.reply,
                             extracted_info |-> last.updates])
         IN  [Found EXCEPT !.conversation_history = hist,
                           !.tenant_profile["conversation_turns"] = PyInt(Len(hist))]

\* C16: when the save fails during a merge or an append, the operation raises
\* nothing and the in-memory profile and history are what a successful save leaves.
C16_PersistenceFailureContained ==
    SaveFailed => (last.outcome = "ok" /\ Session = AsIfSaved)

\* A merge of an age whose save failed on a session never persisted: the age is in
\* memory and the table has no row.
C16_Witness ==
    /\ SaveFailed
    /\ last.op = "update_tenant_profile"
    /\ last.outcome = "ok"
    /\ repo[last.sid] = <<>>
    /\ After["age"] = PyInt(25)

\* C19: an operation invoked with one session id leaves every other session
\* (profile, history, handoff flag) as it was.
C19_SessionIsolation ==
    [][\A b \in Sessions : b # last'.sid => conversations'[b] = conversations[b]]_vars

\* handle_message ran for s1 while s2 held a profile with an age and a history.
C19_Witness ==
    /\ last.op = "handle_message"
    /\ last.sid = "s1"
    /\ conversations["s2"] # <<>>
    /\ conversations["s2"][1].tenant_profile["age"] = PyInt(25)
    /\ conversations["s2"][1].conversation_history # <<>>

(***************************************************************************)
(* Concurrent requests, under SpecRequests.                                *)
(***************************************************************************)
\* The calls that have taken a step on their session and not yet their last one
InProgress == {c \in CallIds : calls[c].pc \in Running}

C21_TurnsEqualHistoryLength ==
    last.op = "add_conversation_turn" =>
        After["conversation_turns"] = PyInt(Len(Session.conversation_history))

\* A first turn appended to a session two merges had counted up to 2: the counter
\* comes back to 1, the length of the history.
C21_Witness ==
    /\ last.op = "add_conversation_turn"
    /\ pre # <<>>
    /\ Before["conversation_turns"] = PyInt(2)
    /\ Len(Session.conversation_history) = 1
    /\ After["conversation_turns"] = PyInt(1)

IsPrefix(a, b) == Len(a) <= Len(b) /\ SubSeq(b, 1, Len(a)) = a

\* The turn the last add_conversation_turn was given
GivenTurn ==
    [user_message |-> last.user_input, agent_response |-> last.reply,
     extracted_info |-> last.updates]

\* C22: while a session stays in memory every operation leaves the history it
\* found as a prefix of the history it leaves, and add_conversation_turn leaves
\* exactly the history it found with the given turn appended.
C22_HistoryAppendOnly ==
    (last.sid # None /\ last.op # "clear_session" /\ conversations[last.sid] # <<>>) =>
        /\ IsPrefix(PreHistory, Session.conversation_history)
        /\ last.op = "add_conversation_turn" =>
              Session.conversation_history = Append(PreHistory, GivenTurn)

\* A second turn was appended behind a first, different one.
C22_Witness ==
    /\ last.op = "add_conversation_turn"
    /\ pre # <<>>
    /\ Len(pre[1].conversation_history) = 1
    /\ pre[1].conversation_history[1].user_message = "hello"
    /\ Len(Session.conversation_history) = 2
    /\ Session.conversation_history[2].user_message = "I am 25 years old"

(***************************************************************************)
(* What extraction may do to the status, under Spec.                       *)
(***************************************************************************)
\* C23: the merge handle_message makes of what the extractor returned leaves the
\* status as it was or takes it from prospect to qualified; a status set by
\* update_tenant_status is never changed by it.
C23_ExtractionOnlyQualifies ==
    (last.op = "handle_message" /\ last.sid # None /\ conversations[last.sid] # <<>>) =>
        \/ StatusOf(After) = StatusOf(Found.tenant_profile)
        \/ StatusOf(Found.tenant_profile) = "prospect" /\ StatusOf(After) = "qualified"

(***************************************************************************)
(* How far a handle_message call for a session gets, under Spec.           *)
(***************************************************************************)
\* Every handle_message call for a session ends in test mode or in the exception
\* path, and there with the TypeError of line 451 or the one of the merge: the
\* reply capability and the detector (lines 489-503) are not reached, and no
\* handoff notification is sent.
SessionCallStopsBeforeReply ==
    (last.op = "handle_message" /\ last.sid # None) =>
        /\ last.outcome \in {"test_mode", "error"}
        /\ last.outcome = "error" =>
              last.exc \in {MinThresholdError, TurnsTypeError(PyStr("x")), TurnsTypeError(PyNone)}
        /\ "handoff" \notin last.notified

(***************************************************************************)
(* The language-barrier rule, under SpecDetect.                            *)
(***************************************************************************)
\* A message with a communication-difficulty word, no human-request phrase and
\* fewer than two emotional keywords: only the language-barrier rule can fire
DifficultyOnlyCase ==
    /\ detOut # <<>>
    /\ DifficultyHit(DetMessage)
    /\ ManualHits(DetMessage) = {}
    /\ EmotionalCount(DetMessage) < 2

NoLanguageOnRecord ==
    \/ detIn.session_id = None
    \/ DetProfile = <<>>
    \/ ~Truthy(DetProfile[1]["language_preference"])

\* C25: for a message with a difficulty word but no human-request phrase and fewer
\* than two emotional keywords, the detector returns handoff_triggered = false
\* whenever no session is given, the session has no profile, or the profile's
\* language_preference is empty.
C25_BarrierNeedsLanguage ==
    (DifficultyOnlyCase /\ NoLanguageOnRecord) => ~detOut[1].handoff_triggered

\* "sorry I am confused" was judged for a session whose profile holds the six
\* required fields and an empty language_preference, and did not trigger.
C25_Witness ==
    /\ detOut # <<>>
    /\ detIn.user_input = "sorry I am confused"
    /\ detIn.session_id = DetectorSession
    /\ DetProfile # <<>>
    /\ DetProfile[1]["language_preference"] = PyStr("")
    /\ DetProfile[1]["age"] # PyNone
    /\ ~detOut[1].handoff_triggered

(***************************************************************************)
(* The new-session notification, under Spec.                               *)
(***************************************************************************)
\* handle_message called handle_session_notification for the session
NotifiedNewSession == last.op = "handle_message" /\ "session" \in last.notified

\* C27: over the handle_message calls on one session id the new-session notifier
\* is invoked at most once: a call that invoked it is not followed by another
\* call on the same session that invokes it again.
C27_NotifiedAtMostOnce ==
    [][~(NotifiedNewSession /\ NotifiedNewSession' /\ last'.sid = last.sid)]_vars

(***************************************************************************)
(* The LLM capability out of reach, under Spec.                            *)
(***************************************************************************)
\* A handle_message call for a session found that the LLM cannot be set up
LLMUnreachable ==
    /\ last.op = "handle_message"
    /\ last.sid # None
    /\ llm_available = "no"

\* C28: when the LLM capability is unreachable, handle_message with a session id
\* extracts the fields of the message with the rule-based extractor and merges
\* them into the session's profile, and the reply says nothing of the failure.
C28_FallbackWhenLLMUnreachable ==
    LLMUnreachable =>
        /\ last.updates = RuleBased(last.user_input)
        /\ conversations[last.sid] # <<>>
        /\ \A f \in DOMAIN RuleBased(last.user_input) :
              After[f] = RuleBased(last.user_input)[f]
        /\ last.reply # TestModeReply
        /\ last.outcome # "error"

(***************************************************************************)
(* The order of the steps of one call, under SpecSteps.                    *)
(***************************************************************************)
StepRank(step) ==
    CASE step = "extraction" -> 1
      [] step = "merge" -> 2
      [] step = "reply_generation" -> 3
      [] step = "detector" -> 4

Invoked == {calls.trace[i] : i \in DOMAIN calls.trace}

StepsWithoutSession ==
    /\ calls.session_id = None
    /\ calls.trace = <<"extraction", "reply_generation", "detector">>

(***************************************************************************)
(* get_or_create_session, under Spec.                                      *)
(***************************************************************************)
\* C30: get_or_create_session(s) leaves a session that is in memory as it is; on a
\* miss the session holds the profile stored in the tenants table when there is
\* one and an empty profile otherwise, with an empty history in both cases; and a
\* second get_or_create_session(s) returns the same session.
C30_GetOrCreate ==
    last.op = "get_or_create_session" =>
        /\ pre # <<>> => conversations[last.sid] = pre
        /\ (pre = <<>> /\ repo[last.sid] # <<>>) =>
              /\ Session.tenant_profile = repo[last.sid][1]
              /\ Session.conversation_history = <<>>
        /\ (pre = <<>> /\ repo[last.sid] = <<>>) =>
              /\ Session.tenant_profile = TenantProfile
              /\ Session.conversation_history = <<>>
        /\ get_or_create_session(conversations, repo, last.sid) = Session

(***************************************************************************)
(* The round trip through the tenants table, under Spec.                   *)
(***************************************************************************)
\* get_or_create_session found no session in memory and a row in the tenants table
Rehydrated ==
    /\ last.op = "get_or_create_session"
    /\ pre = <<>>
    /\ repo[last.sid] # <<>>

\* C31: a session rehydrated from the tenants table by get_or_create_session has
\* the status and the data fields of the synced row, so a status set through
\* update_tenant_status is still there for the next merge.
C31_RoundTripPreservesProfile ==
    Rehydrated =>
        \A a \in DataFields \cup {"status"} : After[a] = repo[last.sid][1][a]

(***************************************************************************)
(* Merging the same field map again, under Spec.                           *)
(***************************************************************************)
\* The profile a second update_tenant_profile with the same field map leaves
MergedAgain == update_tenant_profile(After, last.updates).profile

\* The part of C32 that holds: the second application of a field map leaves every
\* tenant data field and the status as the first left them.
MergeIdempotent ==
    last.op = "update_tenant_profile" =>
        \A a \in DataFields \cup {"status"} : MergedAgain[a] = After[a]

\* C32: applying the same field map twice in a row leaves every tenant data field
\* and the status as after the first application, and a merge moves a data field
\* from absent to present only, never from present to absent.
C32_MergeIdempotentAdditive ==
    (last.op = "update_tenant_profile" /\ pre # <<>>) =>
        /\ \A a \in DataFields \cup {"status"} : MergedAgain[a] = After[a]
        /\ \A f \in DataFields : Before[f] # PyNone => After[f] # PyNone

(***************************************************************************)
(* The queries, under SpecQuery.                                           *)
(***************************************************************************)
\* The required fields of profile p that hold no value, in the order age, sex,
\* occupation, move_in_date, rental_duration, guarantor_status
RECURSIVE EmptyAmong(_, _)
EmptyAmong(p, fields) ==
    IF fields = <<>> THEN <<>>
    ELSE (IF NonEmpty(p[Head(fields)]) THEN <<>> ELSE <<Head(fields)>>)
            \o EmptyAmong(p, Tail(fields))

SixInOrder ==
    <<"age", "sex", "occupation", "move_in_date", "rental_duration", "guarantor_status">>

\* What the claim expects of the queries on the session the query was made for
ExpectedMissing ==
    IF conversations[last.sid] = <<>> THEN SixInOrder
    ELSE EmptyAmong(Session.tenant_profile, SixInOrder)

C35_MemoryInfoReadOnly ==
    last.op = "get_conversation_memory_info" =>
        /\ conversations[last.sid] = pre
        /\ repo[last.sid] = <<>> /\ Session.tenant_profile = TenantProfile
               /\ Session.conversation_history = <<>>
              => last.outcome = "not_found"

(***************************************************************************)
(* The status as an enum value, under SpecStatus.                          *)
(***************************************************************************)
\* C34: the status of every in-memory profile is one of the TenantStatus values,
\* whatever the arguments of the operations that led to it.
C34_StatusIsEnumValue ==
    \A s \in Sessions :
        conversations[s] # <<>> =>
            /\ conversations[s][1].tenant_profile["status"].t = "str"
            /\ conversations[s][1].tenant_profile["status"].s \in TenantStatus

(***************************************************************************)
(* Calls without a session id, under SpecNoSession.                        *)
(***************************************************************************)
\* C36: a handle_message call without a session id leaves every session (profile,
\* history, handoff flag) and the tenants table as they were and sends neither the
\* new-session nor the handoff notification.
C36_NoSessionNoStoreChange ==
    [][(last'.op = "handle_message" /\ last'.sid = None) =>
          /\ conversations' = conversations
          /\ repo' = repo
          /\ last'.notified = {}]_vars

\* A call without a session id whose message asks for a human got its reply, while
\* the session s1 held a profile with an age and a history of one turn.
C36_Witness ==
    /\ last.op = "handle_message"
    /\ last.sid = None
    /\ last.user_input = "sorry, can I speak to someone"
    /\ last.outcome = "normal"
    /\ last.notified = {}
    /\ conversations["s1"] # <<>>
    /\ conversations["s1"][1].tenant_profile["age"] = PyInt(25)
    /\ Len(conversations["s1"][1].conversation_history) = 1
    /\ ~conversations["s1"][1].handoff_completed

(***************************************************************************)
(* The guarantor patterns, under SpecGuarantor.                            *)
(***************************************************************************)
GuarantorMessage == Lower(extIn.user_input)

\* The guarantor_status the extractor returned, None if it returned none
GuarantorStatus ==
    IF "guarantor_status" \in DOMAIN extOut[1] THEN extOut[1]["guarantor_status"] ELSE PyNone

MatchesNoGuarantor ==
    Contains(GuarantorMessage, "no guarantor") \/ Contains(GuarantorMessage, "pas de garant")

MatchesNeedGuarantor ==
    Contains(GuarantorMessage, "need guarantor")
        \/ Contains(GuarantorMessage, "besoin d'un garant")

\* C37: a message that matches the 'no guarantor' / 'pas de garant' pattern yields
\* guarantor_status 'no', and one that matches 'need guarantor' / "besoin d'un
\* garant" yields 'need'.
C37_GuarantorMapping ==
    extOut # <<>> =>
        /\ MatchesNoGuarantor => GuarantorStatus = PyStr("no")
        /\ MatchesNeedGuarantor => GuarantorStatus = PyStr("need")

\* The statuses the extractor does return: 'no' and 'need' come out only where the
\* word after the phrase goes on ("no guarantors"), so that the first pattern, the
\* bare word guarantor or garant, does not match.
GuarantorStatusReturned(v) == extOut # <<>> /\ GuarantorStatus = PyStr(v)

(***************************************************************************)
(* The extraction request, under SpecSteps.                                *)
(***************************************************************************)
\* handle_message has sent the extraction request of a call for a session; the
\* store is as the request found it.
RequestSent == calls.pc = "extracted" /\ calls.session_id # None /\ calls.request # <<>>

RequestProfile == conversations[calls.session_id][1].tenant_profile

\* The call is the first message of a new session: nothing is on record yet.
FirstMessage ==
    /\ conversations[calls.session_id][1].conversation_history = <<>>
    /\ \A f \in DataFields : RequestProfile[f] = PyNone

SevenFields == SixInOrder \o <<"language_preference">>

\* C38: the focus list in the extraction request of handle_message is all seven
\* fields for the first message of a new session, and exactly the current
\* missing-field list for a session with a known profile.
C38_FocusFields ==
    RequestSent =>
        calls.request[1].focus_fields =
            StrList(IF FirstMessage THEN SevenFields
                    ELSE EmptyAmong(RequestProfile, SixInOrder))

\* What the code does: with a session id the focus list is the missing-field list,
\* on the first message too (the six required fields, without
\* language_preference); only a call without a session id gets all seven.
FocusIsMissingFields ==
    /\ RequestSent =>
          calls.request[1].focus_fields = StrList(EmptyAmong(RequestProfile, SixInOrder))
    /\ (calls.pc = "extracted" /\ calls.session_id = None /\ calls.request # <<>>) =>
          calls.request[1].focus_fields = StrList(SevenFields)

\* A second message of a session whose age is on record: five fields in focus.
FocusOnKnownProfile ==
    /\ RequestSent
    /\ Truthy(RequestProfile["age"])
    /\ calls.request[1].focus_fields =
          "['sex', 'occupation', 'move_in_date', 'rental_duration', 'guarantor_status']"

====
